---- MODULE Spec2Model ----
(***************************************************************************)
(* Model of the TaskManagement Gantt application (package app/):           *)
(*   ExcelTaskRepository  (app/repository.py)                              *)
(*   DependencyService    (app/services.py)                                *)
(*   GanttFigureBuilder   (app/gantt_figure.py)                            *)
(*   GanttDashApp         (app/dash_app.py)                                *)
(*                                                                         *)
(* Representation.                                                         *)
(*   - A text value is a sequence of one-character strings, so that        *)
(*     str.strip, comparison by code point and concatenation are computed. *)
(*   - A cell of a DataFrame is a record [k, s, n]:                        *)
(*       k = "nan"   missing value (NaN / None / NaT / JSON null)          *)
(*       k = "str"   text s                                                *)
(*       k = "num"   number n                                              *)
(*       k = "ts"    pandas Timestamp, n ticks after the epoch of the model*)
(*       k = "dstr"  a text that pandas.to_datetime parses, standing for   *)
(*                   the instant n it denotes (the digits are not kept)    *)
(*   - A DataFrame is [columns |-> set of headers, rows |-> sequence of    *)
(*     rows]; a row has one cell per canonical column; the cell of a       *)
(*     column that the frame does not have is never read.                  *)
(*   Inputs are restricted to texts without digits for ids, names and      *)
(*   categories, to whole numbers for progress, and to date texts of one   *)
(*   format per column.                                                    *)
(*                                                                         *)
(* Callbacks. Every Dash callback is a request of its own: an event runs   *)
(* sync_store_and_table, update_hidden_groups or export_excel, whose       *)
(* answer writes the stores; a write to tasks-store or hidden-legendgroups *)
(* makes the browser post the request of update_gantt (gantt = "pending"), *)
(* which is answered in a later step, UpdateGantt, with the store and the  *)
(* hidden set of that time. Other events may be handled in between.        *)
(***************************************************************************)
EXTENDS Integers, Sequences, FiniteSets, TLC

\* ------------------------------------------------------------------ bounds
\* Number of table edits (cell edits, row deletions) in one behaviour.
MaxEdits == 1
\* Number of uploads and reloads in one behaviour.
MaxLoads == 1
\* Number of legend clicks in one behaviour.
MaxClicks == 1
\* Clock ticks in one minute: a Timestamp counts ticks, the table view
\* prints minutes.
TicksPerMinute == 2

\* The minutes of a day of the model's clock.
MinutesPerDay == 2

\* The ticks of a day of the model's clock.
TicksPerDay == TicksPerMinute * MinutesPerDay

\* Uploads and reloads in a run that ends with exports.
MaxLoadsBeforeExport == 2

\* The events the two browsers send between them.
MaxSessionEvents == 2

\* Legend clicks in a run of legend clicks only.
MaxToggles == 3

\* Loads, cell edits and legend clicks in a run with every kind of event.
MaxEvents == 2

\* The last day of the date ranges handed to add_weekend_vrects.
MaxScanDay == 9

\* The last instant of the clock in a run in which time passes.
MaxNow == 6

\* ------------------------------------------------------------------- texts
\* The characters of the model in code-point order.
Ascii ==
  << " ", "-", "0", "1", "2", "3", "4", "5", "6", "7", "8", "9", ":",
     "A", "B", "C", "D", "E", "F", "G", "H", "I", "J", "K", "L", "M",
     "N", "O", "P", "Q", "R", "S", "T", "U", "V", "W", "X", "Y", "Z",
     "a", "b", "c", "d", "e", "f", "g", "h", "i", "j", "k", "l", "m",
     "n", "o", "p", "q", "r", "s", "t", "u", "v", "w", "x", "y", "z" >>

Ord(c) == CHOOSE i \in 1..Len(Ascii) : Ascii[i] = c

Digits == << "0", "1", "2", "3", "4", "5", "6", "7", "8", "9" >>

IsDigit(c) == \E i \in 1..10 : Digits[i] = c

DigitVal(c) == (CHOOSE i \in 1..10 : Digits[i] = c) - 1

\* str < str of Python: lexicographic by code point, a proper prefix first.
RECURSIVE StrLess(_, _)
StrLess(a, b) ==
  IF b = << >> THEN FALSE
  ELSE IF a = << >> THEN TRUE
  ELSE IF Head(a) # Head(b) THEN Ord(Head(a)) < Ord(Head(b))
  ELSE StrLess(Tail(a), Tail(b))

RECURSIVE LStrip(_)
LStrip(s) == IF s # << >> /\ Head(s) = " " THEN LStrip(Tail(s)) ELSE s

RECURSIVE RStrip(_)
RStrip(s) ==
  IF s # << >> /\ s[Len(s)] = " " THEN RStrip(SubSeq(s, 1, Len(s) - 1)) ELSE s

\* str.strip(): leading and trailing blanks removed.
Strip(s) == RStrip(LStrip(s))

\* str(n) of a whole number.
RECURSIVE NatToStr(_)
NatToStr(n) ==
  IF n < 10 THEN << Digits[n + 1] >>
  ELSE NatToStr(n \div 10) \o << Digits[(n % 10) + 1] >>

IntToStr(n) == IF n < 0 THEN << "-" >> \o NatToStr(0 - n) ELSE NatToStr(n)

RECURSIVE DigitsToNat(_, _)
DigitsToNat(s, acc) ==
  IF s = << >> THEN acc ELSE DigitsToNat(Tail(s), 10 * acc + DigitVal(Head(s)))

AllDigits(s) == s # << >> /\ \A i \in 1..Len(s) : IsDigit(s[i])

\* ------------------------------------------------------------------- cells
NaN == [k |-> "nan", s |-> << >>, n |-> 0]

Str(s) == [k |-> "str", s |-> s, n |-> 0]

Num(n) == [k |-> "num", s |-> << >>, n |-> n]

Ts(n) == [k |-> "ts", s |-> << >>, n |-> n]

DStr(n) == [k |-> "dstr", s |-> << >>, n |-> n]

IsNull(c) == c.k = "nan"

\* Series.fillna(v)
FillNa(c, v) == IF IsNull(c) THEN v ELSE c

\* Series.astype(str) on one value: str(x); str(nan) is "nan".
AsStr(c) ==
  CASE c.k = "str" -> c
    [] c.k = "num" -> Str(IntToStr(c.n))
    [] c.k = "nan" -> Str(<< "n", "a", "n" >>)
    [] OTHER -> c

\* Series.str.strip()
StrStrip(c) == IF c.k = "str" THEN Str(Strip(c.s)) ELSE c

\* pd.to_numeric(errors="coerce") on one value: a number stays, a text of
\* digits (blanks around it and a leading minus allowed) is read, anything
\* else is NaN.
ToNumeric(c) ==
  CASE c.k = "num" -> c
    [] c.k = "str" ->
         LET t == Strip(c.s)
             neg == t # << >> /\ Head(t) = "-"
             d == IF neg THEN Tail(t) ELSE t
         IN IF AllDigits(d)
            THEN Num(IF neg THEN 0 - DigitsToNat(d, 0) ELSE DigitsToNat(d, 0))
            ELSE NaN
    [] OTHER -> NaN

\* A clip that leaves every value as it is.
ClipNone(c, lo, hi) == c

\* Series.clip(lo, hi)
Clip(c, lo, hi) ==
  IF c.k # "num" THEN c
  ELSE IF c.n < lo THEN Num(lo)
  ELSE IF c.n > hi THEN Num(hi)
  ELSE c

\* pd.to_datetime(errors="coerce") on one value: a Timestamp stays, a date
\* text gives the instant it denotes, anything else is NaT.
ToDatetime(c) ==
  CASE c.k = "ts" -> c
    [] c.k = "dstr" -> Ts(c.n)
    [] OTHER -> NaN

\* ------------------------------------------------------------------ schema
COL_NAME == "Task Name"

COL_ID == "Task ID"

COL_START == "Start Date"

COL_END == "End Date"

COL_PROGRESS == "Progress"

COL_PARENT == "Parent Task"

COL_CATEGORY == "Category"

COL_STATUS == "Status"

REQUIRED ==
  << COL_NAME, COL_ID, COL_START, COL_END,
     COL_PROGRESS, COL_PARENT, COL_CATEGORY, COL_STATUS >>

RequiredSet == { REQUIRED[i] : i \in 1..Len(REQUIRED) }

\* The alternate (Japanese) headers, written here in Latin letters, and the
\* canonical header each stands for.
JP_TO_EN ==
  [ jp_koumokumei |-> COL_NAME,
    jp_task_kanri_id |-> COL_ID,
    jp_kaishibi |-> COL_START,
    jp_kigen |-> COL_END,
    jp_shinchoku |-> COL_PROGRESS,
    jp_oya_task |-> COL_PARENT,
    jp_category |-> COL_CATEGORY,
    jp_status |-> COL_STATUS ]

STATUS_TODO == << "T", "o", " ", "D", "o" >>

STATUS_INPROGRESS == << "I", "n", " ", "p", "r", "o", "g", "r", "e", "s", "s" >>

STATUS_REVIEW == << "R", "e", "v", "i", "e", "w" >>

STATUS_DONE == << "D", "o", "n", "e" >>

ALLOWED_STATUS == { STATUS_TODO, STATUS_INPROGRESS, STATUS_REVIEW, STATUS_DONE }

Uncategorized ==
  << "U", "n", "c", "a", "t", "e", "g", "o", "r", "i", "z", "e", "d" >>

\* -------------------------------------------------------------- repository
\* ExcelTaskRepository._maybe_rename_jp_to_en: when any alternate header is
\* present, every alternate header is replaced by its canonical header.
maybe_rename_jp_to_en(df) ==
  IF df.columns \cap DOMAIN JP_TO_EN # {}
  THEN [df EXCEPT !.columns =
          { IF c \in DOMAIN JP_TO_EN THEN JP_TO_EN[c] ELSE c : c \in df.columns }]
  ELSE df

\* A validation that misses nothing.
MissingNone(df) == << >>

\* The list `missing` of ExcelTaskRepository._validate_columns, in the order
\* of REQUIRED; _validate_columns raises ValueError iff it is not empty.
Missing(df) == SelectSeq(REQUIRED, LAMBDA c : c \notin df.columns)

\* df[col] = value for every row (the column is created when absent).
SetColumn(df, col, value) ==
  [ columns |-> df.columns \cup {col},
    rows |-> [ i \in 1..Len(df.rows) |-> [df.rows[i] EXCEPT ![col] = value] ] ]

\* -1, 0, 1: the order DataFrame.sort_values gives one key column
\* (ascending, na_position="last").
CellCmp(x, y) ==
  IF IsNull(x) THEN (IF IsNull(y) THEN 0 ELSE 1)
  ELSE IF IsNull(y) THEN -1
  ELSE IF x.k = "str"
       THEN (IF StrLess(x.s, y.s) THEN -1 ELSE IF StrLess(y.s, x.s) THEN 1 ELSE 0)
       ELSE (IF x.n < y.n THEN -1 ELSE IF x.n > y.n THEN 1 ELSE 0)

SortKey == << COL_START, COL_CATEGORY, COL_NAME >>

RECURSIVE KeyCmp(_, _, _)
KeyCmp(a, b, i) ==
  IF i > Len(SortKey) THEN 0
  ELSE LET c == CellCmp(a[SortKey[i]], b[SortKey[i]])
       IN IF c # 0 THEN c ELSE KeyCmp(a, b, i + 1)

\* An insertion that puts a row before the rows with an equal key.
RECURSIVE InsertUnstable(_, _)
InsertUnstable(sorted, r) ==
  IF sorted = << >> THEN << r >>
  ELSE IF KeyCmp(Head(sorted), r, 1) >= 0 THEN << r >> \o sorted
  ELSE << Head(sorted) >> \o InsertUnstable(Tail(sorted), r)

\* r goes after every row whose key is not greater: rows with equal keys
\* keep their order (the sort on several columns is stable).
RECURSIVE Insert(_, _)
Insert(sorted, r) ==
  IF sorted = << >> THEN << r >>
  ELSE IF KeyCmp(Head(sorted), r, 1) > 0 THEN << r >> \o sorted
  ELSE << Head(sorted) >> \o Insert(Tail(sorted), r)

RECURSIVE SortFrom(_, _)
SortFrom(rows, acc) ==
  IF rows = << >> THEN acc ELSE SortFrom(Tail(rows), Insert(acc, Head(rows)))

\* A normalization that keeps the order of its input.
sort_none(rows) == rows

\* df.sort_values([Start Date, Category, Task Name]).reset_index(drop=True)
sort_values(rows) == SortFrom(rows, << >>)

\* The column assignments of ExcelTaskRepository._normalize on one row.
NormalizeRow(r) ==
  LET st == StrStrip(AsStr(FillNa(r[COL_STATUS], Str(STATUS_TODO))))
  IN [r EXCEPT
        ![COL_ID] = StrStrip(AsStr(r[COL_ID])),
        ![COL_PARENT] = StrStrip(AsStr(FillNa(r[COL_PARENT], Str(<< >>)))),
        ![COL_CATEGORY] = StrStrip(AsStr(FillNa(r[COL_CATEGORY], Str(Uncategorized)))),
        ![COL_START] = ToDatetime(r[COL_START]),
        ![COL_END] = ToDatetime(r[COL_END]),
        ![COL_PROGRESS] = Clip(FillNa(ToNumeric(r[COL_PROGRESS]), Num(0)), 0, 100),
        ![COL_STATUS] = IF st.s \in ALLOWED_STATUS THEN st ELSE Str(STATUS_TODO)]

\* _normalize reads every canonical column: a frame without one of them makes
\* it raise KeyError.
NormalizeRaises(df) == ~(RequiredSet \subseteq df.columns)

\* ExcelTaskRepository._normalize
normalize(df) ==
  [ columns |-> df.columns,
    rows |-> sort_values([ i \in 1..Len(df.rows) |-> NormalizeRow(df.rows[i]) ]) ]

\* ExcelTaskRepository.load after pd.read_excel returned df0 (the upload
\* branch of sync_store_and_table runs the same four steps): the result
\* [ok, df, raw, missing]; ok = FALSE stands for the ValueError of
\* _validate_columns, whose message lists `missing`; raw is the frame that
\* is given to _normalize.
LoadFrame(df0) ==
  LET df1 == maybe_rename_jp_to_en(df0)
      df2 == IF COL_STATUS \notin df1.columns
             THEN SetColumn(df1, COL_STATUS, Str(STATUS_TODO))
             ELSE df1
  IN IF Missing(df2) # << >>
     THEN [ok |-> FALSE, df |-> df2, raw |-> df2, missing |-> Missing(df2)]
     ELSE [ok |-> TRUE, df |-> normalize(df2), raw |-> df2, missing |-> << >>]

\* ---------------------------------------------------------------- services
COL_BLOCK == "Blocked"

BLOCKED == << "B", "L", "O", "C", "K", "E", "D" >>

OK == << "O", "K" >>

\* id_exists of add_blocked: the keys of id_to_prog.
IdExists(rows) == { rows[i][COL_ID] : i \in 1..Len(rows) }

\* id_to_prog of add_blocked: Series.to_dict keeps, for an id that several
\* rows have, the progress of the last of them.
IdToProg(rows, id) ==
  LET last == CHOOSE i \in 1..Len(rows) :
                /\ rows[i][COL_ID] = id
                /\ \A j \in (i + 1)..Len(rows) : rows[j][COL_ID] # id
  IN rows[last][COL_PROGRESS]

\* A resolver that takes a parent at progress 100 for unfinished.
blockedStrict(rows, row) ==
  LET parent == row[COL_PARENT]
  IN IF parent = Str(<< >>) THEN FALSE
     ELSE IF parent \notin IdExists(rows) THEN TRUE
     ELSE IdToProg(rows, parent).n <= 100

\* A resolver that lets a task with an unknown parent id pass.
blockedKnownOnly(rows, row) ==
  LET parent == row[COL_PARENT]
  IN IF parent = Str(<< >>) THEN FALSE
     ELSE IF parent \notin IdExists(rows) THEN FALSE
     ELSE IdToProg(rows, parent).n < 100

\* The inner function blocked(row) of add_blocked.
blocked(rows, row) ==
  LET parent == row[COL_PARENT]
  IN IF parent = Str(<< >>) THEN FALSE
     ELSE IF parent \notin IdExists(rows) THEN TRUE
     ELSE IdToProg(rows, parent).n < 100

\* DependencyService.add_blocked: the rows with the column Blocked added.
add_blocked(rows) ==
  [ i \in 1..Len(rows) |->
      [ c \in DOMAIN rows[i] \cup {COL_BLOCK} |->
          IF c = COL_BLOCK
          THEN (IF blocked(rows, rows[i]) THEN Str(BLOCKED) ELSE Str(OK))
          ELSE rows[i][c] ] ]

\* An edge list that keeps the edge of every task with a parent id.
RECURSIVE iter_dependencies_all(_, _)
iter_dependencies_all(rows, i) ==
  IF i > Len(rows) THEN << >>
  ELSE LET child == AsStr(rows[i][COL_ID]).s
           parent == Strip(AsStr(rows[i][COL_PARENT]).s)
       IN (IF parent # << >> THEN << << parent, child >> >> ELSE << >>)
          \o iter_dependencies_all(rows, i + 1)

\* An edge list that leaves out the edge from a task to itself.
RECURSIVE iter_dependencies_noself(_, _)
iter_dependencies_noself(rows, i) ==
  IF i > Len(rows) THEN << >>
  ELSE LET id_set == { AsStr(rows[j][COL_ID]).s : j \in 1..Len(rows) }
           child == AsStr(rows[i][COL_ID]).s
           parent == Strip(AsStr(rows[i][COL_PARENT]).s)
       IN (IF parent # << >> /\ parent \in id_set /\ parent # child
           THEN << << parent, child >> >> ELSE << >>)
          \o iter_dependencies_noself(rows, i + 1)

\* DependencyService.iter_dependencies, from row i on.
RECURSIVE iter_dependencies(_, _)
iter_dependencies(rows, i) ==
  IF i > Len(rows) THEN << >>
  ELSE LET id_set == { AsStr(rows[j][COL_ID]).s : j \in 1..Len(rows) }
           child == AsStr(rows[i][COL_ID]).s
           parent == Strip(AsStr(rows[i][COL_PARENT]).s)
       IN (IF parent # << >> /\ parent \in id_set
           THEN << << parent, child >> >> ELSE << >>)
          \o iter_dependencies(rows, i + 1)

\* ----------------------------------------------------------- figure builder
Text_cat == << "c", "a", "t", ":" >>

Text_status == << "s", "t", "a", "t", "u", "s", ":" >>

\* A legend group that is the category of the task whatever its status.
task_legendgroup_category(row) == Text_cat \o Strip(AsStr(row[COL_CATEGORY]).s)

\* GanttFigureBuilder.task_legendgroup
task_legendgroup(row) ==
  LET st == Strip(AsStr(row[COL_STATUS]).s)
  IN IF st = STATUS_REVIEW THEN Text_status \o STATUS_REVIEW
     ELSE IF st = STATUS_DONE THEN Text_status \o STATUS_DONE
     ELSE Text_cat \o Strip(AsStr(row[COL_CATEGORY]).s)

\* A filter that keeps the rows without dates.
DropNaNone(rows) ==
  [ i \in 1..Len(rows) |->
      [rows[i] EXCEPT ![COL_START] = ToDatetime(@), ![COL_END] = ToDatetime(@)] ]

\* df.dropna(subset=[Start Date, End Date]) after pd.to_datetime on both.
RECURSIVE DropNa(_)
DropNa(rows) ==
  IF rows = << >> THEN << >>
  ELSE LET r == [Head(rows) EXCEPT ![COL_START] = ToDatetime(@),
                                    ![COL_END] = ToDatetime(@)]
       IN (IF IsNull(r[COL_START]) \/ IsNull(r[COL_END]) THEN << >> ELSE << r >>)
          \o DropNa(Tail(rows))

\* The distinct values of a column in order of first appearance.
RECURSIVE Unique(_, _, _)
Unique(rows, col, seen) ==
  IF rows = << >> THEN << >>
  ELSE IF Head(rows)[col] \in seen THEN Unique(Tail(rows), col, seen)
  ELSE << Head(rows)[col] >> \o Unique(Tail(rows), col, seen \cup {Head(rows)[col]})

\* The texts of a sequence of cells in ascending order (groupby sorts keys).
RECURSIVE SortCells(_)
SortCells(cells) ==
  IF cells = << >> THEN << >>
  ELSE LET m == CHOOSE i \in 1..Len(cells) :
                  \A j \in 1..Len(cells) : ~StrLess(cells[j].s, cells[i].s)
       IN << cells[m] >>
          \o SortCells([ j \in 1..(Len(cells) - 1) |->
                           IF j < m THEN cells[j] ELSE cells[j + 1] ])

IdsOf(rows) == [ i \in 1..Len(rows) |-> rows[i][COL_ID].s ]

\* One trace of the figure: kind, legendgroup (empty: none), the groups of
\* meta["hide_if_any_hidden"] (empty: no meta), the ids of the tasks it
\* draws, its visibility, and showlegend: the two status legend entries
\* have a legend item, and so has a category bar of px.timeline unless its
\* name, the category, is the empty text (plotly.express gives the trace of
\* an empty name no legend item, and build sets its legendgroup only). x
\* and y are the points of a scatter trace (lock markers and connectors),
\* empty for bars.
Trace(kind, lg, meta, ids) ==
  [kind |-> kind, legendgroup |-> lg, hide_if_any_hidden |-> meta,
   ids |-> ids, visible |-> "true", x |-> << >>, y |-> << >>,
   showlegend |-> (\/ kind = "legend"
                   \/ (kind = "bar" /\ SubSeq(lg, 1, 4) = Text_cat /\ lg # Text_cat))]

IsNormal(r) == r[COL_STATUS].s \in {STATUS_TODO, STATUS_INPROGRESS}

IsReview(r) == r[COL_STATUS].s = STATUS_REVIEW

IsDone(r) == r[COL_STATUS].s = STATUS_DONE

\* One trace over the rows sub, none when sub is empty.
GroupTrace(kind, lg, sub) ==
  IF sub = << >> THEN << >> ELSE << Trace(kind, lg, << >>, IdsOf(sub)) >>

\* One trace per category of the normal rows, in the order `cats`.
RECURSIVE CategoryTraces(_, _, _)
CategoryTraces(kind, cats, normal) ==
  IF cats = << >> THEN << >>
  ELSE GroupTrace(kind, Text_cat \o Head(cats).s,
                  SelectSeq(normal, LAMBDA r : r[COL_CATEGORY] = Head(cats)))
       \o CategoryTraces(kind, Tail(cats), normal)

\* Lock traces for every row that names a parent.
RECURSIVE LockTracesOfChildren(_)
LockTracesOfChildren(chart) ==
  IF chart = << >> THEN << >>
  ELSE (IF Head(chart)[COL_PARENT].s # << >>
        THEN LET lg == task_legendgroup(Head(chart))
             IN << [Trace("lock", lg, << lg >>, << Head(chart)[COL_ID].s >>)
                      EXCEPT !.x = << Head(chart)[COL_START] >>,
                             !.y = << Head(chart)[COL_NAME] >>] >>
        ELSE << >>)
       \o LockTracesOfChildren(Tail(chart))

\* The lock traces: one per row whose Blocked is BLOCKED, at the start of
\* the row's bar.
RECURSIVE LockTraces(_)
LockTraces(chart) ==
  IF chart = << >> THEN << >>
  ELSE (IF Head(chart)[COL_BLOCK] = Str(BLOCKED)
        THEN LET lg == task_legendgroup(Head(chart))
             IN << [Trace("lock", lg, << lg >>, << Head(chart)[COL_ID].s >>)
                      EXCEPT !.x = << Head(chart)[COL_START] >>,
                             !.y = << Head(chart)[COL_NAME] >>] >>
        ELSE << >>)
       \o LockTraces(Tail(chart))

\* id_to_row[id]: the row of the chart with that id.
IdToRow(chart, id) == chart[CHOOSE i \in 1..Len(chart) : chart[i][COL_ID].s = id]

\* The two traces (line, arrowhead) of every dependency.
RECURSIVE DepTraces(_, _)
DepTraces(chart, deps) ==
  IF deps = << >> THEN << >>
  ELSE LET parent == IdToRow(chart, Head(deps)[1])
           child == IdToRow(chart, Head(deps)[2])
           parent_lg == task_legendgroup(parent)
           child_lg == task_legendgroup(child)
           meta_dep == << parent_lg, child_lg >>
       IN << [Trace("dep_line", << >>, meta_dep, Head(deps))
                EXCEPT !.x = << parent[COL_END], child[COL_START] >>,
                       !.y = << parent[COL_NAME], child[COL_NAME] >>],
             [Trace("dep_arrow", << >>, meta_dep, Head(deps))
                EXCEPT !.x = << child[COL_START] >>,
                       !.y = << child[COL_NAME] >>] >>
          \o DepTraces(chart, Tail(deps))

\* The chart rows of build: the rows with both dates, with Blocked added.
ChartOf(rows) == add_blocked(DropNa(rows))

\* build raises: df_chart.set_index(Task ID).to_dict(orient="index") raises
\* ValueError when two rows of the chart have one id, and id_to_row[...]
\* raises KeyError for an edge whose end is no row of the chart.
BuildRaises(rows) ==
  LET chart == DropNa(rows)
      deps == iter_dependencies(chart, 1)
  IN \/ \E i, j \in 1..Len(chart) : i # j /\ chart[i][COL_ID] = chart[j][COL_ID]
     \/ \E e \in 1..Len(deps) :
          \E k \in 1..2 : \A i \in 1..Len(chart) : chart[i][COL_ID].s # deps[e][k]

\* pd.Timestamp.now() at the time of a call.
VARIABLE now

\* Timestamp.normalize(): midnight of the day of an instant.
DayStart(n) == (n \div TicksPerDay) * TicksPerDay

\* Timestamp.weekday(): Monday is 0 and Sunday is 6. Day 0 of the model's
\* clock is a Friday.
Weekday(n) == ((n \div TicksPerDay) + 4) % 7

TINT_SATURDAY == "rgba(173, 216, 230, 0.25)"

TINT_SUNDAY == "rgba(255, 182, 193, 0.30)"

\* A shape of the layout: a band (add_vrect) or a line (add_shape).
Shape(type, x0, x1, color) == [type |-> type, x0 |-> x0, x1 |-> x1, color |-> color]

\* The body of the loop of add_weekend_vrects: the band of the day that
\* starts at current.
WeekendBand(current) ==
  IF Weekday(current) = 5
  THEN << Shape("rect", current, current + TicksPerDay, TINT_SATURDAY) >>
  ELSE IF Weekday(current) = 6
  THEN << Shape("rect", current, current + TicksPerDay, TINT_SUNDAY) >>
  ELSE << >>

\* The loop of add_weekend_vrects from the day current on.
RECURSIVE WeekendScan(_, _)
WeekendScan(current, end) ==
  IF current <= end
  THEN WeekendBand(current) \o WeekendScan(current + TicksPerDay, end)
  ELSE << >>

\* GanttFigureBuilder.add_weekend_vrects: the bands it adds to the figure.
add_weekend_vrects(start_date, end_date) ==
  WeekendScan(DayStart(start_date), DayStart(end_date))

\* The least start and the greatest end of the chart.
MinStart(chart) ==
  CHOOSE m \in { chart[i][COL_START].n : i \in 1..Len(chart) } :
    \A i \in 1..Len(chart) : m <= chart[i][COL_START].n

MaxEnd(chart) ==
  CHOOSE m \in { chart[i][COL_END].n : i \in 1..Len(chart) } :
    \A i \in 1..Len(chart) : chart[i][COL_END].n <= m

\* A marker that leaves out the two ends of the range.
now_marker_inside(chart, now_ts) ==
  IF chart # << >> /\ MinStart(chart) < now_ts /\ now_ts < MaxEnd(chart)
  THEN << Shape("line", now_ts, now_ts, "red") >>
  ELSE << >>

\* The NOW line of build: drawn when the chart has a row and now_ts lies in
\* [least start, greatest end].
now_marker(chart, now_ts) ==
  IF chart # << >> /\ MinStart(chart) <= now_ts /\ now_ts <= MaxEnd(chart)
  THEN << Shape("line", now_ts, now_ts, "red") >>
  ELSE << >>

\* GanttFigureBuilder.build on the rows of a normalized frame. shapes are the
\* weekend bands and the NOW line, annotations the label of the NOW line.
build(rows) ==
  LET chart == ChartOf(rows)
      normal == SelectSeq(chart, IsNormal)
      deps == iter_dependencies(chart, 1)
      marker == now_marker(chart, now)
  IN [ chart |-> chart,
       deps |-> deps,
       xaxis_range |-> << >>,
       shapes |-> (IF chart = << >> THEN << >>
                   ELSE add_weekend_vrects(MinStart(chart), MaxEnd(chart)))
                  \o marker,
       annotations |-> [ i \in 1..Len(marker) |-> [text |-> "NOW", x |-> marker[i].x0] ],
       data |->
         CategoryTraces("bar", Unique(normal, COL_CATEGORY, {}), normal)
         \o GroupTrace("bar", Text_status \o STATUS_REVIEW, SelectSeq(chart, IsReview))
         \o GroupTrace("bar", Text_status \o STATUS_DONE, SelectSeq(chart, IsDone))
         \o CategoryTraces("overlay",
                           SortCells(Unique(normal, COL_CATEGORY, {})), normal)
         \o GroupTrace("overlay", Text_status \o STATUS_REVIEW, SelectSeq(chart, IsReview))
         \o GroupTrace("overlay", Text_status \o STATUS_DONE, SelectSeq(chart, IsDone))
         \o LockTraces(chart)
         \o DepTraces(chart, deps)
         \o << Trace("legend", Text_status \o STATUS_REVIEW, << >>, << >>),
               Trace("legend", Text_status \o STATUS_DONE, << >>, << >>) >> ]

\* The x-axis range that GanttFigureBuilder.build of TaskManagement.py forces
\* on a chart with a task: from the least start to the greatest end plus
\* one day. build of gantt_figure.py sets type, tickformat and dtick of the
\* axis and no range (xaxis_range << >>), which leaves it to autorange.
forced_xaxis_range(chart) ==
  IF chart = << >> THEN << >>
  ELSE LET starts == { chart[i][COL_START].n : i \in 1..Len(chart) }
           ends == { chart[i][COL_END].n : i \in 1..Len(chart) }
           x0 == CHOOSE m \in starts : \A n \in starts : m <= n
           x1 == (CHOOSE m \in ends : \A n \in ends : n <= m) + TicksPerDay
       IN << << x0, x1 >> >>

\* ------------------------------------------------------------------ inputs
Txt_A == << "A" >>

Txt_B == << "B" >>

Txt_C == << "C" >>

Txt_Z == << "Z" >>

Txt_X == << "X" >>

Txt_Y == << "Y" >>

Txt_c == << "c" >>

Txt_d == << "d" >>

Txt_abc == << "a", "b", "c" >>

Txt_100 == << "1", "0", "0" >>

Row(name, id, start, end, progress, parent, category, status) ==
  [ c \in RequiredSet |->
      CASE c = COL_NAME -> name
        [] c = COL_ID -> id
        [] c = COL_START -> start
        [] c = COL_END -> end
        [] c = COL_PROGRESS -> progress
        [] c = COL_PARENT -> parent
        [] c = COL_CATEGORY -> category
        [] c = COL_STATUS -> status ]

\* The rows a spreadsheet may hold, as pd.read_excel returns them.
\*   RowX: Scenario A's X (unfinished, one point below 100; no parent).
\*   RowY: Scenario A's Y (parent A), blank category, status Review.
\*   RowP: id " A " with a blank start date, progress above the range, a
\*         parent id that no task has, a blank-only category, a bad status.
\*   RowW: the sort key of RowX, text where a number is expected, padded
\*         parent and category, no status.
RowX == Row(Str(Txt_X), Str(Txt_A), Ts(1), Ts(5), Num(99), NaN, Str(Txt_c), Str(STATUS_TODO))

RowY == Row(Str(Txt_Y), Str(Txt_B), Ts(0), Ts(4), Num(0), Str(Txt_A), NaN, Str(STATUS_REVIEW))

RowP ==
  Row(Str(Txt_X), Str(<< " ", "A", " " >>), NaN, Ts(4), Num(150), Str(Txt_Z),
      Str(<< " " >>), Str(Txt_abc))

RowW ==
  Row(Str(Txt_X), Str(Txt_C), Ts(1), Ts(3), Str(Txt_abc), Str(<< " ", "B", " " >>),
      Str(<< "c", " " >>), NaN)

RowInputs == { RowX, RowY, RowP, RowW }

\* The tables of the input files.
\*   << RowX, RowY >>  Scenario A: Y waits for X.
\*   << RowP, RowY >>  Y's parent A has no start date and progress 100.
\*   << RowX, RowW >>, << RowW, RowX >>  two rows with one sort key.
\*   << RowP, RowW >>  every kind of cell that normalization coerces.
\*   << RowX, RowX >>  one id twice.
\*   << >>  a sheet with the header row only.
TableInputs ==
  { << RowX, RowY >>, << RowP, RowY >>, << RowX, RowW >>, << RowW, RowX >>,
    << RowP, RowW >>, << RowX, RowX >>, << RowY >>, << >> }

\* The header rows of the input files: the canonical headers, the alternate
\* headers, and header rows that lack Status, Category, or both.
HeaderInputs ==
  { RequiredSet,
    DOMAIN JP_TO_EN,
    RequiredSet \ {COL_STATUS},
    RequiredSet \ {COL_CATEGORY},
    RequiredSet \ {COL_STATUS, COL_CATEGORY} }

Unreadable == [readable |-> FALSE, columns |-> {}, rows |-> << >>]

\* The spreadsheets: what pd.read_excel returns for them, or that it raises.
Files ==
  { [readable |-> TRUE, columns |-> RequiredSet, rows |-> q] : q \in TableInputs }
  \cup { [readable |-> TRUE, columns |-> h, rows |-> << RowX, RowY >>] : h \in HeaderInputs }
  \cup { Unreadable }

UploadNames == { << "u", ".", "v", ".", "x", "l", "s", "x" >> }

\* What a user types into a cell of the table, per column (the Status cell
\* is a dropdown of the four allowed values).
EditInputs ==
  [ c \in RequiredSet |->
      CASE c = COL_NAME -> { }
        [] c = COL_ID -> { Str(Txt_A) }
        [] c = COL_START -> { Str(<< >>) }
        [] c = COL_END -> { }
        [] c = COL_PROGRESS -> { Str(Txt_100), Str(Txt_abc) }
        [] c = COL_PARENT -> { Str(Txt_A) }
        [] c = COL_CATEGORY -> { Str(<< >>) }
        [] c = COL_STATUS -> { Str(STATUS_DONE) } ]

\* restyleData of a legend click: changes["visible"] is a scalar or a list
\* with one entry per trace.
VisInputs ==
  { [list |-> FALSE, v |-> "legendonly"], [list |-> FALSE, v |-> "true"],
    [list |-> TRUE, v |-> "legendonly"], [list |-> TRUE, v |-> "true"] }

\* --------------------------------------------------------------- dash app
VARIABLES
  store,             \* dcc.Store tasks-store: the records of df.to_json
  tableRows,         \* DataTable tasks-table: its data
  uploadedFilename,  \* dcc.Store uploaded-filename: << >> (None) or << name >>
  hidden,            \* dcc.Store hidden-legendgroups
  figure,            \* dcc.Graph gantt-graph: its figure
  gantt,             \* the request of update_gantt: "pending", "ok", "raised"
  lastOp,            \* the last event and what its callbacks did
  nEdits,            \* table edits so far
  nLoads,            \* uploads and reloads so far
  nClicks,           \* legend clicks so far
  written,           \* the file the last export wrote: << >> or << file >>
  exportMsg,         \* html.Span export-msg: its children
  loadedFrom,        \* which load filled the store last: "configured", "upload"
  peer,              \* the stores of a second browser: << >> or << stores >>
  scan               \* a run of add_weekend_vrects: its loop variables

vars ==
  << store, tableRows, uploadedFilename, hidden, figure, gantt, lastOp,
     nEdits, nLoads, nClicks, written, exportMsg, loadedFrom, peer, scan, now >>

Frame(columns, rows) == [columns |-> columns, rows |-> rows]

\* df.to_json(date_format="iso", orient="records"): a Timestamp is written
\* as its ISO text, NaT and NaN as null.
to_json(rows) ==
  [ i \in 1..Len(rows) |->
      [ c \in DOMAIN rows[i] |->
          IF rows[i][c].k = "ts" THEN DStr(rows[i][c].n) ELSE rows[i][c] ] ]

\* pd.read_json(orient="records"): the columns are the keys of the records;
\* "[]" gives a frame without columns.
read_json(json) == Frame(IF json = << >> THEN {} ELSE DOMAIN json[1], json)

\* pd.DataFrame(table_rows)
DataFrame(records) ==
  Frame(IF records = << >> THEN {} ELSE DOMAIN records[1], records)

\* strftime("%Y-%m-%d %H:%M") of pd.to_datetime(value): the text of the
\* minute the instant lies in; NaT gives NaN.
StrftimeMinute(c) ==
  LET t == ToDatetime(c)
  IN IF IsNull(t) THEN NaN ELSE DStr(t.n - (t.n % TicksPerMinute))

\* GanttDashApp._to_table_rows
to_table_rows(rows) ==
  [ i \in 1..Len(rows) |->
      [rows[i] EXCEPT ![COL_START] = StrftimeMinute(@),
                      ![COL_END] = StrftimeMinute(@)] ]

\* A visibility loop that takes the traces of a hidden group out of the
\* figure.
ApplyHiddenRemove(data, hidden_groups) ==
  SelectSeq(data, LAMBDA tr : tr.legendgroup = << >> \/ tr.legendgroup \notin hidden_groups)

\* A visibility loop that looks at the legend group of a trace only.
ApplyHiddenGroupOnly(data, hidden_groups) ==
  [ i \in 1..Len(data) |->
      IF data[i].legendgroup # << >> /\ data[i].legendgroup \in hidden_groups
      THEN [data[i] EXCEPT !.visible = "legendonly"]
      ELSE data[i] ]

\* The visibility loop of update_gantt.
ApplyHidden(data, hidden_groups) ==
  [ i \in 1..Len(data) |->
      LET tr == data[i]
          lg == tr.legendgroup
          groups == tr.hide_if_any_hidden
      IN IF lg # << >> /\ lg \in hidden_groups
         THEN [tr EXCEPT !.visible = "legendonly"]
         ELSE IF groups # << >>
                 /\ \E g \in 1..Len(groups) : groups[g] \in hidden_groups
         THEN [tr EXCEPT !.visible = "legendonly"]
         ELSE tr ]

\* update_gantt(store_json, hidden_groups): [ok, figure]; ok = FALSE when
\* _normalize or build raises, and the graph then keeps its figure.
update_gantt(store_json, hidden_groups, old_figure) ==
  LET df0 == read_json(store_json)
  IN IF NormalizeRaises(df0) THEN [ok |-> FALSE, figure |-> old_figure]
     ELSE LET df == normalize(df0)
          IN IF BuildRaises(df.rows) THEN [ok |-> FALSE, figure |-> old_figure]
             ELSE LET fig == build(df.rows)
                  IN [ok |-> TRUE,
                      figure |-> [fig EXCEPT !.data = ApplyHidden(@, hidden_groups)]]

\* An output of a callback is << >> for dash.no_update and << value >> for a
\* value; raised = TRUE stands for an exception, after which Dash updates no
\* output. raw is the frame that reached _normalize (none: no columns),
\* missing the list in the message of _validate_columns.
NoUpdate == << >>

NoFrame == Frame({}, << >>)

Raised(raw, missing) ==
  [raised |-> TRUE, store |-> NoUpdate, table |-> NoUpdate, filename |-> NoUpdate,
   raw |-> raw, missing |-> missing]

Returned(s, t, f, raw) ==
  [raised |-> FALSE, store |-> s, table |-> t, filename |-> f,
   raw |-> raw, missing |-> << >>]

\* A handler that keeps the name of an upload it could not take.
sync_store_and_table_keepname(trigger, upload_contents, upload_filename, table_rows, disk) ==
  IF trigger = "upload-xlsx.contents" /\ upload_contents # << >>
  THEN LET r == IF upload_contents[1].readable
                THEN LoadFrame(Frame(upload_contents[1].columns, upload_contents[1].rows))
                ELSE [ok |-> FALSE, df |-> NoFrame, raw |-> NoFrame, missing |-> << >>]
       IN IF r.ok
          THEN Returned(<< to_json(r.df.rows) >>, << to_table_rows(r.df.rows) >>,
                        << << upload_filename >> >>, r.raw)
          ELSE [Raised(NoFrame, r.missing) EXCEPT !.filename = << << upload_filename >> >>]
  ELSE Returned(NoUpdate, NoUpdate, NoUpdate, NoFrame)

\* The callback sync_store_and_table. disk is what pd.read_excel returns for
\* the configured path at the time of the call.
sync_store_and_table(trigger, upload_contents, upload_filename, table_rows, disk) ==
  CASE trigger = "upload-xlsx.contents" ->
         IF upload_contents = << >> THEN Returned(NoUpdate, NoUpdate, NoUpdate, NoFrame)
         ELSE IF ~upload_contents[1].readable THEN Raised(NoFrame, << >>)
         ELSE LET r == LoadFrame(Frame(upload_contents[1].columns, upload_contents[1].rows))
              IN IF ~r.ok THEN Raised(NoFrame, r.missing)
                 ELSE Returned(<< to_json(r.df.rows) >>, << to_table_rows(r.df.rows) >>,
                               << << upload_filename >> >>, r.raw)
    [] trigger = "btn-reload.n_clicks" ->
         IF ~disk.readable THEN Raised(NoFrame, << >>)
         ELSE LET r == LoadFrame(Frame(disk.columns, disk.rows))
              IN IF ~r.ok THEN Raised(NoFrame, r.missing)
                 ELSE Returned(<< to_json(r.df.rows) >>, << to_table_rows(r.df.rows) >>,
                               NoUpdate, r.raw)
    [] trigger = "tasks-table.data_timestamp" ->
         LET df == DataFrame(table_rows)
         IN IF NormalizeRaises(df) THEN Raised(df, << >>)
            ELSE Returned(<< to_json(normalize(df).rows) >>,
                          << to_table_rows(normalize(df).rows) >>, NoUpdate, df)
    [] OTHER -> Returned(NoUpdate, NoUpdate, NoUpdate, NoFrame)

\* A handler that hides every legend group of the figure on a hiding click.
update_hidden_groups_every(new_vis, idxs, fig, hidden_groups) ==
  LET lgs == { fig.data[i].legendgroup : i \in idxs } \ { << >> }
      every == { fig.data[i].legendgroup : i \in 1..Len(fig.data) } \ { << >> }
  IN IF new_vis = [list |-> FALSE, v |-> "legendonly"]
     THEN hidden_groups \cup every
     ELSE hidden_groups \ lgs

\* A handler that keeps only the groups of the last hiding click.
update_hidden_groups_last(new_vis, idxs, fig, hidden_groups) ==
  LET lgs == { fig.data[i].legendgroup : i \in idxs } \ { << >> }
  IN IF new_vis = [list |-> FALSE, v |-> "legendonly"]
     THEN lgs
     ELSE hidden_groups \ lgs

\* The callback update_hidden_groups for restyleData = [changes, idxs] with
\* changes = {"visible": new_vis}.
update_hidden_groups(new_vis, idxs, fig, hidden_groups) ==
  LET lgs == { fig.data[i].legendgroup : i \in idxs } \ { << >> }
  IN IF new_vis = [list |-> FALSE, v |-> "legendonly"]
     THEN hidden_groups \cup lgs
     ELSE hidden_groups \ lgs

\* ExcelTaskRepository.xlsx_path: the configured file.
xlsx_path ==
  << "g", "a", "n", "t", "t", "_", "s", "a", "m", "p", "l", "e", ".", "x", "l", "s", "x" >>

Text_updated ==
  << "_", "u", "p", "d", "a", "t", "e", "d", ".", "x", "l", "s", "x" >>

\* UI["msg_saved_prefix"] and the blank after it.
Text_saved == << "S", "a", "v", "e", "d", ":", " " >>

\* The last position of character c in s, 0 when there is none (str.rfind).
RFind(s, c) ==
  IF \E i \in 1..Len(s) : s[i] = c
  THEN CHOOSE i \in 1..Len(s) : s[i] = c /\ \A j \in (i + 1)..Len(s) : s[j] # c
  ELSE 0

\* Path(p).name: what follows the last "/".
PathName(p) == SubSeq(p, RFind(p, "/") + 1, Len(p))

\* Path(p).stem: the name without its last suffix; a name whose only dot is
\* the first or the last character has no suffix.
PathStem(p) ==
  LET name == PathName(p)
      i == RFind(name, ".")
  IN IF 1 < i /\ i < Len(name) THEN SubSeq(name, 1, i - 1) ELSE name

\* Path(p).with_name(name)
WithName(p, name) == SubSeq(p, 1, RFind(p, "/")) \o name

\* strftime("%Y-%m-%d") of pd.to_datetime(value): the text of the day the
\* instant lies in; NaT gives NaN.
StrftimeDay(c) ==
  LET t == ToDatetime(c)
  IN IF IsNull(t) THEN NaN ELSE DStr(t.n - (t.n % TicksPerDay))

\* ExcelTaskRepository.save(df, out_path): the file it writes, with the
\* required columns and the dates as day texts.
save(df, out_path) ==
  [ name |-> out_path,
    columns |-> RequiredSet,
    rows |-> [ i \in 1..Len(df.rows) |->
                 [ c \in RequiredSet |->
                     IF c \in {COL_START, COL_END} THEN StrftimeDay(df.rows[i][c])
                     ELSE df.rows[i][c] ] ] ]

\* The callback export_excel(_n, store_json, uploaded_filename): the message
\* it returns and the file it writes, or that it raises. The store is a JSON
\* text, never None or empty, so the branch for no data is never taken.
\* With the name of an upload in uploaded-filename the callback raises
\* NameError at Path(uploaded_filename): dash_app.py imports no Path.
export_excel(store_json, uploaded_filename) ==
  LET df0 == read_json(store_json)
  IN IF NormalizeRaises(df0) THEN [raised |-> TRUE, msg |-> << >>, file |-> << >>]
     ELSE IF uploaded_filename # << >> /\ uploaded_filename[1] # << >>
     THEN [raised |-> TRUE, msg |-> << >>, file |-> << >>]
     ELSE LET df == normalize(df0)
              out_name == PathStem(xlsx_path) \o Text_updated
              out_path == WithName(xlsx_path, out_name)
          IN [raised |-> FALSE,
              msg |-> Text_saved \o PathName(out_path),
              file |-> << save(df, out_path) >>]

\* pd.read_excel of a file written by to_excel: an empty cell and a text
\* cell that is empty or a default NA text ("nan") read as NaN, every other
\* cell as it was written.
read_excel(file) ==
  [ readable |-> TRUE,
    columns |-> file.columns,
    rows |-> [ i \in 1..Len(file.rows) |->
                 [ c \in DOMAIN file.rows[i] |->
                     LET v == file.rows[i][c]
                     IN IF v.k = "str" /\ v.s \in { << >>, << "n", "a", "n" >> }
                        THEN NaN ELSE v ] ] ]

Op(op, ok, columns, raw, missing, idx, col) ==
  [op |-> op, ok |-> ok, columns |-> columns, raw |-> raw,
   missing |-> missing, idx |-> idx, col |-> col]

\* A server that keeps one copy of the stores for every browser.
StoreOwnersAll == {"self", "peer"}

\* The browsers whose stores take the outputs of a callback: the stores are
\* dcc.Store components of the page, so the browser that sent the request.
StoreOwners == {"self"}

\* The value of an output after a callback: the returned value, or the old
\* one for no_update.
Take(out, old) == IF out = NoUpdate THEN old ELSE out[1]

\* The request of update_gantt after sync_store_and_table answered out: the
\* browser posts one when the answer wrote tasks-store, an Input of
\* update_gantt; an answer that wrote nothing leaves the request as it was.
GanttAfter(out, g) ==
  IF out.raised \/ out.store = NoUpdate THEN g ELSE "pending"

\* No run of add_weekend_vrects under way.
NoScan == [pc |-> "none", start_date |-> 0, end_date |-> 0, current |-> 0,
           end |-> 0, bands |-> << >>]

\* GanttDashApp.__init__ and the page load: _build_layout loads the
\* configured file and builds the figure of the layout (an exception there
\* ends the program); the browser shows the layout and posts the first
\* request of update_gantt, which has no prevent_initial_call.
InitAt(instants) ==
  \E f \in Files, t \in instants :
    /\ now = t
    /\ scan = NoScan
    /\ f.readable
    /\ LET r == LoadFrame(Frame(f.columns, f.rows))
       IN /\ r.ok
          /\ ~BuildRaises(r.df.rows)
          /\ store = to_json(r.df.rows)
          /\ tableRows = to_table_rows(r.df.rows)
          /\ figure = build(r.df.rows)
          /\ lastOp = Op("init", TRUE, f.columns, r.raw, << >>, 0, "")
    /\ gantt = "pending"
    /\ uploadedFilename = << >>
    /\ hidden = {}
    /\ nEdits = 0
    /\ nLoads = 0
    /\ nClicks = 0
    /\ written = << >>
    /\ exportMsg = << >>
    /\ loadedFrom = "configured"
    /\ peer = << >>

\* The application started one minute after the start of day 0.
Init == InitAt({TicksPerMinute})

\* Sync(...): the page after the request of sync_store_and_table was
\* answered with out, for an event that left the table of the browser as
\* `shown`. The figure is the output of update_gantt, another request.
Sync(out, shown, op, columns, idx, col) ==
  /\ store' = Take(out.store, store)
  /\ tableRows' = Take(out.table, shown)
  /\ uploadedFilename' = Take(out.filename, uploadedFilename)
  /\ gantt' = GanttAfter(out, gantt)
  /\ lastOp' = Op(op, ~out.raised, columns, out.raw, out.missing, idx, col)
  /\ loadedFrom' = IF out.raised \/ out.store = NoUpdate THEN loadedFrom
                   ELSE IF op = "upload" THEN "upload"
                   ELSE IF op = "reload" THEN "configured"
                   ELSE loadedFrom
  /\ peer' = IF peer # << >> /\ "peer" \in StoreOwners
             THEN << [peer[1] EXCEPT
                        !.store = Take(out.store, @),
                        !.tableRows = Take(out.table, @),
                        !.uploadedFilename = Take(out.filename, @)] >>
             ELSE peer
  /\ UNCHANGED << hidden, figure, written, exportMsg, scan, now >>

\* A file is dropped on the upload box, as one of at most max loads.
UploadWithin(max) ==
  \E f \in Files, name \in UploadNames :
    /\ nLoads < max
    /\ Sync(sync_store_and_table("upload-xlsx.contents", << f >>, name, tableRows, Unreadable),
            tableRows, "upload", f.columns, 0, "")
    /\ nLoads' = nLoads + 1
    /\ UNCHANGED << nEdits, nClicks >>

Upload == UploadWithin(MaxLoads)

\* The upload box reports no contents.
UploadNone ==
  /\ nLoads < MaxLoads
  /\ Sync(sync_store_and_table("upload-xlsx.contents", << >>, "", tableRows, Unreadable),
          tableRows, "upload_none", {}, 0, "")
  /\ nLoads' = nLoads + 1
  /\ UNCHANGED << nEdits, nClicks >>

\* The Reload button, as one of at most max loads: the configured file
\* holds f by now.
ReloadWithin(max) ==
  \E f \in Files :
    /\ nLoads < max
    /\ Sync(sync_store_and_table("btn-reload.n_clicks", << >>, "", tableRows, f),
            tableRows, "reload", f.columns, 0, "")
    /\ nLoads' = nLoads + 1
    /\ UNCHANGED << nEdits, nClicks >>

Reload == ReloadWithin(MaxLoads)

\* The user types v into cell (i, c) of the table.
EditCell ==
  \E i \in 1..Len(tableRows), c \in RequiredSet :
    \E v \in EditInputs[c] :
      /\ nEdits < MaxEdits
      /\ LET edited == [tableRows EXCEPT ![i][c] = v]
         IN Sync(sync_store_and_table("tasks-table.data_timestamp", << >>, "", edited,
                                      Unreadable),
                 edited, "edit", {}, i, c)
      /\ nEdits' = nEdits + 1
      /\ UNCHANGED << nLoads, nClicks >>

\* The user deletes row i of the table.
DeleteRow ==
  \E i \in 1..Len(tableRows) :
    /\ nEdits < MaxEdits
    /\ LET edited == [ j \in 1..(Len(tableRows) - 1) |->
                         IF j < i THEN tableRows[j] ELSE tableRows[j + 1] ]
       IN Sync(sync_store_and_table("tasks-table.data_timestamp", << >>, "", edited,
                                    Unreadable),
               edited, "delete", {}, i, "")
    /\ nEdits' = nEdits + 1
    /\ UNCHANGED << nLoads, nClicks >>

\* A click on the legend item of trace i: Plotly reports the new visibility
\* of the traces of its group, and update_hidden_groups, given the figure
\* the graph shows, answers with the hidden set; the answer writes
\* hidden-legendgroups, an Input of update_gantt.
LegendClickWithin(max) ==
  \E i \in 1..Len(figure.data), new_vis \in VisInputs :
    /\ nClicks < max
    /\ figure.data[i].showlegend
    /\ LET idxs == { j \in 1..Len(figure.data) :
                       figure.data[j].legendgroup = figure.data[i].legendgroup }
           h == update_hidden_groups(new_vis, idxs, figure, hidden)
       IN /\ hidden' = h
          /\ gantt' = "pending"
          /\ lastOp' = Op("toggle", TRUE, {}, NoFrame, << >>, i, new_vis.v)
          /\ peer' = IF peer # << >> /\ "peer" \in StoreOwners
                     THEN << [peer[1] EXCEPT !.hidden = h] >>
                     ELSE peer
    /\ nClicks' = nClicks + 1
    /\ UNCHANGED << store, tableRows, uploadedFilename, figure, nEdits, nLoads,
                    written, exportMsg, loadedFrom, scan, now >>

\* The request of update_gantt is answered: the figure built for the store
\* and the hidden set goes to the graph; when the callback raises, the graph
\* keeps its figure.
UpdateGantt ==
  /\ gantt = "pending"
  /\ LET g == update_gantt(store, hidden, figure)
     IN /\ figure' = g.figure
        /\ gantt' = IF g.ok THEN "ok" ELSE "raised"
  /\ UNCHANGED << store, tableRows, uploadedFilename, hidden, lastOp,
                  nEdits, nLoads, nClicks, written, exportMsg, loadedFrom,
                  peer, scan, now >>

LegendClick == LegendClickWithin(MaxClicks)

\* The Export button.
Export ==
  LET r == export_excel(store, uploadedFilename)
  IN /\ written' = IF r.raised THEN written ELSE r.file
     /\ exportMsg' = IF r.raised THEN exportMsg ELSE r.msg
     /\ lastOp' = Op("export", ~r.raised, {}, NoFrame, << >>, 0, "")
     /\ UNCHANGED << store, tableRows, uploadedFilename, hidden, figure, gantt,
                     nEdits, nLoads, nClicks, loadedFrom, peer, scan, now >>

\* A second browser opens the page and gets the layout, which holds what the
\* first got: the stores of the initial load, nothing hidden, no upload, the
\* figure of the layout; it posts its first request of update_gantt.
OpenPeer ==
  /\ peer = << >>
  /\ lastOp.op = "init"
  /\ peer' = << [store |-> store, tableRows |-> tableRows,
                 uploadedFilename |-> << >>, hidden |-> {}, figure |-> figure,
                 gantt |-> "pending", loadedFrom |-> "configured"] >>
  /\ lastOp' = Op("open", TRUE, {}, NoFrame, << >>, 0, "")
  /\ UNCHANGED << store, tableRows, uploadedFilename, hidden, figure, gantt,
                  nEdits, nLoads, nClicks, written, exportMsg, loadedFrom,
                  scan, now >>

\* The next event comes from the other browser: the two change places.
Switch ==
  /\ peer # << >>
  /\ store' = peer[1].store
  /\ tableRows' = peer[1].tableRows
  /\ uploadedFilename' = peer[1].uploadedFilename
  /\ hidden' = peer[1].hidden
  /\ figure' = peer[1].figure
  /\ gantt' = peer[1].gantt
  /\ loadedFrom' = peer[1].loadedFrom
  /\ peer' = << [store |-> store, tableRows |-> tableRows,
                 uploadedFilename |-> uploadedFilename, hidden |-> hidden,
                 figure |-> figure, gantt |-> gantt, loadedFrom |-> loadedFrom] >>
  /\ lastOp' = Op("switch", TRUE, {}, NoFrame, << >>, 0, "")
  /\ UNCHANGED << nEdits, nLoads, nClicks, written, exportMsg, scan, now >>

\* The table events: loads and edits, the legend left alone, and the
\* answers of update_gantt.
Next == Upload \/ UploadNone \/ Reload \/ EditCell \/ DeleteRow \/ UpdateGantt

Spec == Init /\ [][Next]_vars

\* The loads and the legend clicks.
NextLegend == Upload \/ UploadNone \/ Reload \/ LegendClick \/ UpdateGantt

SpecLegend == Init /\ [][NextLegend]_vars

\* Every event of one browser: loads, table edits and legend clicks.
NextAll ==
  Upload \/ UploadNone \/ Reload \/ EditCell \/ DeleteRow \/ LegendClick \/ UpdateGantt

SpecAll == Init /\ [][NextAll]_vars

\* Loads, table edits and exports.
NextExport == Upload \/ Reload \/ EditCell \/ Export \/ UpdateGantt

SpecExport == Init /\ [][NextExport]_vars

\* Legend clicks one after the other on the chart of the initial load.
LegendClicks == LegendClickWithin(MaxToggles)

NextToggles == LegendClicks \/ UpdateGantt

SpecToggles == Init /\ [][NextToggles]_vars

\* The instants handed to add_weekend_vrects: the first and the last tick of
\* every day up to MaxScanDay.
ScanTimes ==
  { d * TicksPerDay + o : d \in 0..MaxScanDay, o \in {0, TicksPerDay - 1} }

\* A call of add_weekend_vrects(fig, start_date, end_date) on its own, the
\* application at rest: the two assignments before the loop.
InitScan ==
  /\ \E start_date, end_date \in ScanTimes :
       scan = [pc |-> "loop", start_date |-> start_date, end_date |-> end_date,
               current |-> DayStart(start_date), end |-> DayStart(end_date),
               bands |-> << >>]
  /\ now = 0
  /\ store = << >>
  /\ tableRows = << >>
  /\ uploadedFilename = << >>
  /\ hidden = {}
  /\ figure = build(<< >>)
  /\ gantt = "ok"
  /\ lastOp = Op("scan", TRUE, {}, NoFrame, << >>, 0, "")
  /\ nEdits = 0
  /\ nLoads = 0
  /\ nClicks = 0
  /\ written = << >>
  /\ exportMsg = << >>
  /\ loadedFrom = "configured"
  /\ peer = << >>

\* One pass of the while loop: the band of the day, then the next day.
ScanDay ==
  /\ scan.pc = "loop"
  /\ scan.current <= scan.end
  /\ scan' = [scan EXCEPT !.bands = @ \o WeekendBand(scan.current),
                          !.current = @ + TicksPerDay]
  /\ UNCHANGED << store, tableRows, uploadedFilename, hidden, figure, gantt,
                  lastOp, nEdits, nLoads, nClicks, written, exportMsg,
                  loadedFrom, peer, now >>

\* The loop ends: current is past end.
ScanExit ==
  /\ scan.pc = "loop"
  /\ ~(scan.current <= scan.end)
  /\ scan' = [scan EXCEPT !.pc = "done"]
  /\ UNCHANGED << store, tableRows, uploadedFilename, hidden, figure, gantt,
                  lastOp, nEdits, nLoads, nClicks, written, exportMsg,
                  loadedFrom, peer, now >>

NextScan == ScanDay \/ ScanExit

\* The loop runs on: the Python interpreter takes the next step.
SpecScan == InitScan /\ [][NextScan]_vars /\ WF_vars(NextScan)

\* Time passes: the clock of the server moves on by one tick.
Tick ==
  /\ now < MaxNow
  /\ now' = now + 1
  /\ lastOp' = Op("tick", TRUE, {}, NoFrame, << >>, 0, "")
  /\ UNCHANGED << store, tableRows, uploadedFilename, hidden, figure, gantt,
                  nEdits, nLoads, nClicks, written, exportMsg, loadedFrom,
                  peer, scan >>

\* The application started at any instant of the clock; time passes between
\* the reloads, the cell edits and the answers of update_gantt.
InitNow == InitAt(0..MaxNow)

NextNow == Tick \/ Reload \/ EditCell \/ UpdateGantt

SpecNow == InitNow /\ [][NextNow]_vars

\* Every kind of event of one browser: loads, cell edits, legend clicks and
\* exports.
NextEvents ==
  \/ (nEdits + nLoads + nClicks < MaxEvents /\ Upload)
  \/ (nEdits + nLoads + nClicks < MaxEvents /\ Reload)
  \/ (nEdits + nLoads + nClicks < MaxEvents /\ EditCell)
  \/ (nEdits + nLoads + nClicks < MaxEvents /\ LegendClick)
  \/ Export
  \/ UpdateGantt

SpecEvents == Init /\ [][NextEvents]_vars

\* Two browsers: loads, cell edits and legend clicks in either.
NextSessions ==
  \/ OpenPeer
  \/ Switch
  \/ (nEdits + nLoads + nClicks < MaxSessionEvents /\ Upload)
  \/ (nEdits + nLoads + nClicks < MaxSessionEvents /\ Reload)
  \/ (nEdits + nLoads + nClicks < MaxSessionEvents /\ EditCell)
  \/ (nEdits + nLoads + nClicks < MaxSessionEvents /\ LegendClick)
  \/ UpdateGantt

SpecSessions == Init /\ [][NextSessions]_vars

\* Loads one after the other, then exports.
UploadBeforeExport == UploadWithin(MaxLoadsBeforeExport)

ReloadBeforeExport == ReloadWithin(MaxLoadsBeforeExport)

NextExportName == UploadBeforeExport \/ ReloadBeforeExport \/ Export \/ UpdateGantt

SpecExportName == Init /\ [][NextExportName]_vars

\* ------------------------------------------------------------- properties
Range(q) == { q[i] : i \in 1..Len(q) }

\* The canonical table of the store, as update_gantt reads it.
StoreFrame == normalize(read_json(store))

\* The tables the resolver is given for the current store: the rows with
\* both dates (what build passes), and the whole table.
ResolverTables ==
  IF store = << >> THEN { } ELSE { StoreFrame.rows, DropNa(StoreFrame.rows) }

IsBlocked(rows, i) == add_blocked(rows)[i][COL_BLOCK] = Str(BLOCKED)

\* The position of the task a parent id resolves to: the last task with
\* that id (one task when ids are unique).
Resolved(rows, p) ==
  CHOOSE j \in 1..Len(rows) :
    /\ rows[j][COL_ID].s = p
    /\ \A k \in 1..Len(rows) : rows[k][COL_ID].s = p => k <= j

\* C1: for every table given to add_blocked and every task t of it, t is not
\* blocked when its parentId is empty, blocked when its parentId is not
\* empty and is the id of no task, and otherwise blocked iff the progress of
\* the resolved parent is below 100.
C1_Blocked ==
  \A rows \in ResolverTables :
    \A i \in 1..Len(rows) :
      LET p == rows[i][COL_PARENT].s
          known == \E j \in 1..Len(rows) : rows[j][COL_ID].s = p
      IN /\ p = << >> => ~IsBlocked(rows, i)
         /\ (p # << >> /\ ~known) => IsBlocked(rows, i)
         /\ (p # << >> /\ known) =>
              (IsBlocked(rows, i) <=> rows[Resolved(rows, p)][COL_PROGRESS].n < 100)

\* A table with a child that a parent at progress exactly 100 unblocks, next
\* to a task that a parent at progress 99 blocks or a parent id without task.
C1_Witness ==
  \E rows \in ResolverTables :
    /\ \E i \in 1..Len(rows) :
         /\ rows[i][COL_PARENT].s # << >>
         /\ \E j \in 1..Len(rows) :
              rows[j][COL_ID] = rows[i][COL_PARENT] /\ rows[j][COL_PROGRESS].n = 100
         /\ ~IsBlocked(rows, i)
    /\ lastOp.op = "edit"

\* C2: for every table, iter_dependencies returns one pair (parentId, childId)
\* for exactly the tasks whose parentId is not empty and is the id of a task
\* of the table, in table order; no edge names an id the table lacks.
C2_Edges ==
  \A rows \in ResolverTables :
    LET deps == iter_dependencies(rows, 1)
        ids == { rows[j][COL_ID].s : j \in 1..Len(rows) }
        linked == { i \in 1..Len(rows) :
                      rows[i][COL_PARENT].s # << >> /\ rows[i][COL_PARENT].s \in ids }
    IN /\ Len(deps) = Cardinality(linked)
       /\ \A i \in linked : << rows[i][COL_PARENT].s, rows[i][COL_ID].s >> \in Range(deps)
       /\ \A e \in 1..Len(deps) :
            /\ deps[e][1] \in ids
            /\ deps[e][2] \in ids
            /\ \E i \in linked :
                 deps[e] = << rows[i][COL_PARENT].s, rows[i][COL_ID].s >>

\* Scenario C: a task whose parentId Z is the id of no task, and no edge.
C2_Witness ==
  \E rows \in ResolverTables :
    /\ \E i \in 1..Len(rows) : rows[i][COL_PARENT].s = Txt_Z
    /\ iter_dependencies(rows, 1) = << >>

\* The lock traces of the figure name the task with id `id`.
HasLock(id) ==
  \E k \in 1..Len(figure.data) :
    figure.data[k].kind = "lock" /\ figure.data[k].ids = << id >>

\* C3: in the scene of a rebuild, a charted task whose parentId is the id of
\* a task of the whole canonical table with progress 100 is not blocked (no
\* BLOCKED value, no lock marker), whether or not that parent has dates.
C3_BlockedFromWholeTable ==
  gantt = "ok" =>
    \A i \in 1..Len(figure.chart) :
      LET t == figure.chart[i]
          whole == StoreFrame.rows
      IN (/\ t[COL_PARENT].s # << >>
          /\ \E j \in 1..Len(whole) : whole[j][COL_ID] = t[COL_PARENT]
          /\ \A j \in 1..Len(whole) :
               whole[j][COL_ID] = t[COL_PARENT] => whole[j][COL_PROGRESS].n = 100)
         => (t[COL_BLOCK] = Str(OK) /\ ~HasLock(t[COL_ID].s))

UniqueIds(rows) ==
  \A i, j \in 1..Len(rows) : rows[i][COL_ID] = rows[j][COL_ID] => i = j

\* The chart of the scene update_gantt builds for the store s.
ChartFor(s) == update_gantt(s, hidden, figure).figure.chart

\* A step that is an edit of a progress cell, between two stores with unique
\* ids for both of which update_gantt builds a scene.
ProgressEditStep ==
  /\ nEdits' = nEdits + 1
  /\ lastOp'.op = "edit"
  /\ lastOp'.col = COL_PROGRESS
  /\ update_gantt(store, hidden, figure).ok
  /\ update_gantt(store', hidden, figure).ok
  /\ UniqueIds(store)
  /\ UniqueIds(store')

\* C4: with unique ids, an edit of the progress of one task X changes, in the
\* next scene, the blocked flag of no task but the tasks whose parentId is
\* X's id, and an edit to progress 100 leaves every such child unblocked.
C4_ProgressEdit ==
  [][ ProgressEditStep
      => LET X == tableRows[lastOp'.idx][COL_ID]
         IN /\ \A i \in 1..Len(ChartFor(store)), j \in 1..Len(ChartFor(store')) :
                 (/\ ChartFor(store)[i][COL_ID] = ChartFor(store')[j][COL_ID]
                  /\ ChartFor(store)[i][COL_PARENT] # X)
                 => ChartFor(store)[i][COL_BLOCK] = ChartFor(store')[j][COL_BLOCK]
            /\ (\E k \in 1..Len(store') :
                  store'[k][COL_ID] = X /\ store'[k][COL_PROGRESS].n = 100)
               => \A j \in 1..Len(ChartFor(store')) :
                    ChartFor(store')[j][COL_PARENT] = X
                    => ChartFor(store')[j][COL_BLOCK] = Str(OK)
    ]_vars

\* C4, the frame part alone, which the code keeps: the blocked flag of every
\* task that is no child of X is the same before and after the edit.
C4_OthersUnchanged ==
  [][ ProgressEditStep
      => LET X == tableRows[lastOp'.idx][COL_ID]
         IN \A i \in 1..Len(ChartFor(store)), j \in 1..Len(ChartFor(store')) :
              (/\ ChartFor(store)[i][COL_ID] = ChartFor(store')[j][COL_ID]
               /\ ChartFor(store)[i][COL_PARENT] # X)
              => ChartFor(store)[i][COL_BLOCK] = ChartFor(store')[j][COL_BLOCK]
    ]_vars

\* Whether pd.to_numeric reads the cell as a number.
IsNumeric(c) == ToNumeric(c).k = "num"

\* The status a raw cell stands for: its text without the blanks around it
\* when that is an allowed value, To Do otherwise.
MeantStatus(c) ==
  IF c.k = "str" /\ Strip(c.s) \in ALLOWED_STATUS THEN Strip(c.s) ELSE STATUS_TODO

\* The progress a raw cell stands for: 0 when it is no number, else the
\* number brought into [0, 100].
MeantProgress(c) ==
  IF ~IsNumeric(c) THEN 0
  ELSE IF ToNumeric(c).n < 0 THEN 0
  ELSE IF ToNumeric(c).n > 100 THEN 100
  ELSE ToNumeric(c).n

\* The number of rows that stand for status s, and for progress n.
StatusCount(rows, s) ==
  Cardinality({ i \in 1..Len(rows) : MeantStatus(rows[i][COL_STATUS]) = s })

ProgressCount(rows, n) ==
  Cardinality({ i \in 1..Len(rows) : MeantProgress(rows[i][COL_PROGRESS]) = n })

\* C5: every task of the store has one of the four allowed statuses and a
\* progress in [0, 100]; and after a load or an edit the store holds, for
\* every status and every progress value, as many tasks as the raw rows
\* stand for (other statuses counted as To Do, non-numbers as 0, numbers
\* outside the range as the nearer end).
C5_StatusAndProgress ==
  /\ \A i \in 1..Len(store) :
       /\ store[i][COL_STATUS].k = "str"
       /\ store[i][COL_STATUS].s \in ALLOWED_STATUS
       /\ store[i][COL_PROGRESS].k = "num"
       /\ store[i][COL_PROGRESS].n >= 0
       /\ store[i][COL_PROGRESS].n <= 100
  /\ (lastOp.ok /\ lastOp.op \in {"init", "upload", "reload", "edit", "delete"}) =>
       /\ Len(store) = Len(lastOp.raw.rows)
       /\ \A s \in ALLOWED_STATUS :
            StatusCount(store, s) = StatusCount(lastOp.raw.rows, s)
       /\ \A n \in 0..100 :
            ProgressCount(store, n) = ProgressCount(lastOp.raw.rows, n)

\* A store whose raw rows held a status outside the four, a progress above
\* 100 and a progress that is no number.
C5_Witness ==
  /\ lastOp.ok
  /\ lastOp.op = "upload"
  /\ store # << >>
  /\ \E i \in 1..Len(lastOp.raw.rows) :
       ~IsNumeric(lastOp.raw.rows[i][COL_PROGRESS])
  /\ \E i \in 1..Len(lastOp.raw.rows) :
       LET r == lastOp.raw.rows[i]
       IN r[COL_STATUS].k = "str" /\ Strip(r[COL_STATUS].s) \notin ALLOWED_STATUS
  /\ \E i \in 1..Len(lastOp.raw.rows) :
       LET r == lastOp.raw.rows[i]
       IN IsNumeric(r[COL_PROGRESS]) /\ ToNumeric(r[COL_PROGRESS]).n > 100

\* The frames that reach _normalize in the current state: the raw frame of
\* the last event, the table of the browser, and the store.
NormalizeInputs ==
  { df \in { lastOp.raw, DataFrame(tableRows), read_json(store) } :
      ~NormalizeRaises(df) }

\* C6: _normalize(_normalize(rows)) = _normalize(rows) for every raw table
\* with the required columns, in every field of every row and in row order.
C6_Idempotent ==
  \A df \in NormalizeInputs : normalize(normalize(df)) = normalize(df)

\* A raw table of two rows that normalization reorders and whose cells it
\* coerces.
C6_Witness ==
  /\ lastOp.op = "upload"
  /\ lastOp.raw \in NormalizeInputs
  /\ Len(lastOp.raw.rows) = 2
  /\ normalize(lastOp.raw).rows[1] # NormalizeRow(lastOp.raw.rows[1])
  /\ \E i \in 1..2 : NormalizeRow(lastOp.raw.rows[i]) # lastOp.raw.rows[i]

\* C7: the store is in ascending order of (start, category, name), a task
\* without start after the tasks with one.
C7_Sorted ==
  \A i, j \in 1..Len(store) : i < j => KeyCmp(store[i], store[j], 1) <= 0

\* A normalization pass of an edit that moved a row.
C7_Witness ==
  /\ lastOp.op = "edit"
  /\ lastOp.ok
  /\ Len(store) >= 2
  /\ \E i \in 1..Len(store) : store[i][COL_ID] # StrStrip(AsStr(lastOp.raw.rows[i][COL_ID]))

\* Whether a raw cell is blank: missing, empty, or blanks only.
IsBlank(c) == IsNull(c) \/ (c.k = "str" /\ Strip(c.s) = << >>)

\* C8: no task of a normalized table has an empty category: a blank
\* category (missing, empty, or blanks only) has become "Uncategorized".
C8_NoBlankCategory ==
  /\ \A i \in 1..Len(store) : store[i][COL_CATEGORY].s # << >>
  /\ (lastOp.ok /\ lastOp.op \in {"init", "upload", "reload", "edit", "delete"}) =>
       Cardinality({ i \in 1..Len(store) : store[i][COL_CATEGORY].s = Uncategorized })
         = Cardinality({ i \in 1..Len(lastOp.raw.rows) :
                           \/ IsBlank(lastOp.raw.rows[i][COL_CATEGORY])
                           \/ StrStrip(AsStr(lastOp.raw.rows[i][COL_CATEGORY])).s
                                = Uncategorized })

\* The canonical columns an input with the headers cols lacks after the
\* translation of the alternate headers.
Lacks(cols) == RequiredSet \ maybe_rename_jp_to_en(Frame(cols, << >>)).columns

IsLoad(op) == op.op \in {"init", "upload", "reload"} /\ op.columns # {}

\* C9: a load or an upload of a readable file that lacks only Status succeeds
\* and every task of the store has status To Do; one that lacks another
\* required column fails, the error lists the required columns it lacks
\* (Status, which is filled in before the validation, is never listed), and
\* the store and the table stay as they were.
C9_MissingColumns ==
  /\ [](IsLoad(lastOp) =>
         /\ Lacks(lastOp.columns) \subseteq {COL_STATUS} => lastOp.ok
         /\ Lacks(lastOp.columns) = {COL_STATUS} =>
              \A i \in 1..Len(store) : store[i][COL_STATUS] = Str(STATUS_TODO)
         /\ ~(Lacks(lastOp.columns) \subseteq {COL_STATUS}) =>
              /\ ~lastOp.ok
              /\ Range(lastOp.missing) = Lacks(lastOp.columns) \ {COL_STATUS})
  /\ [][ (IsLoad(lastOp') /\ ~(Lacks(lastOp'.columns) \subseteq {COL_STATUS}))
         => (store' = store /\ tableRows' = tableRows) ]_vars

\* An upload without the Status column that gave a table of two tasks, one
\* of which the file showed as Review.
C9_Witness ==
  /\ lastOp.op = "upload"
  /\ lastOp.columns = RequiredSet \ {COL_STATUS}
  /\ lastOp.ok
  /\ Len(store) = 2

\* C10: a failed upload or reload (required columns missing, file not
\* readable) leaves the store, the table rows, the uploaded file name and the
\* hidden-group set as they were.
C10_FailedLoadKeepsState ==
  [][ (lastOp'.op \in {"upload", "reload"} /\ ~lastOp'.ok)
      => /\ store' = store
         /\ tableRows' = tableRows
         /\ uploadedFilename' = uploadedFilename
         /\ hidden' = hidden ]_vars

\* A failed upload in a state with a hidden group and a table.
C10_Witness ==
  /\ lastOp.op = "upload"
  /\ ~lastOp.ok
  /\ lastOp.missing # << >>
  /\ hidden # {}
  /\ store # << >>

\* C11: after a cell edit or a row deletion the store holds the normalization
\* of the rows the table then had, also for the table left without rows, and
\* holds no task whose id the table no longer has.
C11_StoreFollowsTable ==
  lastOp.op \in {"edit", "delete"} =>
    /\ store = to_json(normalize(Frame(RequiredSet, lastOp.raw.rows)).rows)
    /\ \A i \in 1..Len(store) :
         \E j \in 1..Len(tableRows) : tableRows[j][COL_ID] = store[i][COL_ID]

\* Whether a row lacks a start or an end date.
Undated(r) == IsNull(r[COL_START]) \/ IsNull(r[COL_END])

\* C12: a task without start or end date stays in the store and in the table
\* rows, and the scene draws nothing for it: the chart holds dated rows only,
\* every bar, overlay, lock and connector belongs to rows of the chart, and no
\* trace names the id of a task that only undated rows carry.
C12_UndatedKeptNotDrawn ==
  /\ (lastOp.ok /\ lastOp.op \in {"init", "upload", "reload", "edit", "delete"}) =>
       /\ Len(store) = Len(lastOp.raw.rows)
       /\ Len(tableRows) = Len(store)
       /\ \A i \in 1..Len(store) :
            /\ tableRows[i][COL_ID] = store[i][COL_ID]
            /\ Undated(store[i]) <=> Undated(tableRows[i])
       /\ Cardinality({ i \in 1..Len(store) : Undated(store[i]) })
            = Cardinality({ j \in 1..Len(lastOp.raw.rows) :
                              Undated(NormalizeRow(lastOp.raw.rows[j])) })
  /\ gantt = "ok" =>
       /\ \A k \in 1..Len(figure.chart) : ~Undated(figure.chart[k])
       /\ \A t \in 1..Len(figure.data) :
            \A id \in Range(figure.data[t].ids) :
              \E k \in 1..Len(figure.chart) : figure.chart[k][COL_ID].s = id
       /\ Len(figure.chart)
            = Cardinality({ i \in 1..Len(store) : ~Undated(store[i]) })
       /\ \A i \in 1..Len(store) :
            (/\ Undated(store[i])
             /\ \A j \in 1..Len(store) :
                  store[j][COL_ID] = store[i][COL_ID] => Undated(store[j]))
            => \A t \in 1..Len(figure.data) :
                 store[i][COL_ID].s \notin Range(figure.data[t].ids)

\* A rebuilt scene of a table with an undated task that is the parent of a
\* drawn task.
C12_Witness ==
  /\ gantt = "ok"
  /\ \E i, j \in 1..Len(store) :
       /\ Undated(store[i])
       /\ ~Undated(store[j])
       /\ store[j][COL_PARENT] = store[i][COL_ID]
       /\ \E t \in 1..Len(figure.data) :
            figure.data[t].kind = "bar" /\ store[j][COL_ID].s \in Range(figure.data[t].ids)

\* The legend group of the task of the chart with the given id.
GroupOf(id) == task_legendgroup(IdToRow(figure.chart, id))

NotVisible(tr) == tr.visible = "legendonly"

\* C13: in the scene rebuilt for the table and the hidden set, a bar, an
\* overlay or a lock marker is not visible exactly when the legend group of
\* its task is in the hidden set, and a connector (line and arrow marker) is
\* not visible exactly when the group of its parent or of its child is.
C13_HiddenExactly ==
  gantt = "ok" =>
    \A t \in 1..Len(figure.data) :
      LET tr == figure.data[t]
      IN /\ tr.visible \in {"true", "legendonly"}
         /\ tr.kind \in {"bar", "overlay", "lock"} =>
              /\ tr.ids # << >>
              /\ \A id \in Range(tr.ids) : NotVisible(tr) <=> GroupOf(id) \in hidden
         /\ tr.kind \in {"dep_line", "dep_arrow"} =>
              /\ Len(tr.ids) = 2
              /\ NotVisible(tr) <=>
                   (GroupOf(tr.ids[1]) \in hidden \/ GroupOf(tr.ids[2]) \in hidden)

\* A scene in which the group of a parent is hidden and the group of its
\* child is not: the connector and the bar of the parent are not visible,
\* the bar of the child is.
C13_Witness ==
  /\ gantt = "ok"
  /\ hidden # {}
  /\ \E t, u \in 1..Len(figure.data) :
       /\ figure.data[t].kind = "dep_line"
       /\ NotVisible(figure.data[t])
       /\ GroupOf(figure.data[t].ids[1]) \in hidden
       /\ GroupOf(figure.data[t].ids[2]) \notin hidden
       /\ figure.data[u].kind = "bar"
       /\ figure.data[t].ids[2] \in Range(figure.data[u].ids)
       /\ ~NotVisible(figure.data[u])

\* Whether every trace of the legend group g is out of sight in the figure.
GroupHidden(fig, g) ==
  \A t \in 1..Len(fig.data) : fig.data[t].legendgroup = g => NotVisible(fig.data[t])

\* C14: the hidden set starts empty; a legend click that hides group G puts
\* G out of sight, and G stays out of sight in every scene rebuilt afterwards,
\* across edits, reloads and uploads, until a legend click shows G again.
C14_HiddenPersists ==
  /\ [](lastOp.op = "init" => hidden = {})
  /\ [][ (nClicks' = nClicks + 1 /\ lastOp'.col = "legendonly")
         => figure.data[lastOp'.idx].legendgroup \in hidden' ]_vars
  /\ [][ \A G \in hidden :
           \/ /\ nClicks' = nClicks + 1
              /\ lastOp'.col = "true"
              /\ figure.data[lastOp'.idx].legendgroup = G
           \/ G \in hidden' ]_vars
  /\ [](gantt = "ok" => \A G \in hidden : GroupHidden(figure, G))

\* The text s without the five characters of ".xlsx" at its end.
WithoutXlsx(s) == SubSeq(s, 1, Len(s) - 5)

\* C15: an export of a store that holds a task completes, and a completed
\* export has written the file <stem>_updated.xlsx, <stem> being the base
\* name of the uploaded file when an upload filled the table last, and of the
\* configured file when the initial load or a reload did.
C15_ExportName ==
  lastOp.op = "export" =>
    /\ store # << >> => lastOp.ok
    /\ lastOp.ok =>
         /\ written # << >>
         /\ written[1].name
              = (IF loadedFrom = "upload" THEN WithoutXlsx(uploadedFilename[1])
                 ELSE WithoutXlsx(xlsx_path)) \o Text_updated

\* The day text of a date cell of the store, NaN for a missing date.
DayOf(c) == IF IsNull(c) THEN NaN ELSE DStr((c.n \div TicksPerDay) * TicksPerDay)

\* Whether the text s ends with the text t.
EndsWith(s, t) ==
  Len(t) <= Len(s) /\ SubSeq(s, Len(s) - Len(t) + 1, Len(s)) = t

\* C16: an export of a store that holds a task completes, also after an
\* upload; a completed export has written the tasks of the store as they
\* are at that time, edits included, row by row and field by field, with
\* start and end cut to the day, and the message names the written file.
C16_ExportWritesStore ==
  lastOp.op = "export" =>
    /\ store # << >> => lastOp.ok
    /\ lastOp.ok =>
         /\ written # << >>
         /\ Len(written[1].rows) = Len(store)
         /\ \A i \in 1..Len(store) :
              /\ DOMAIN written[1].rows[i] = RequiredSet
              /\ \A c \in RequiredSet \ {COL_START, COL_END} :
                   written[1].rows[i][c] = store[i][c]
              /\ written[1].rows[i][COL_START] = DayOf(store[i][COL_START])
              /\ written[1].rows[i][COL_END] = DayOf(store[i][COL_END])
         /\ EndsWith(exportMsg, written[1].name)

\* What the round trip is to keep of a task: id, name, category, status and
\* progress as they are, start and end as days.
Kept(r) ==
  [id |-> r[COL_ID], name |-> r[COL_NAME], category |-> r[COL_CATEGORY],
   status |-> r[COL_STATUS], progress |-> r[COL_PROGRESS],
   start |-> DayOf(r[COL_START]), end |-> DayOf(r[COL_END])]

\* Whether two tables hold the same tasks, each as often as the other.
SameTasks(a, b) ==
  /\ Len(a) = Len(b)
  /\ \A i \in 1..Len(a) :
       Cardinality({ j \in 1..Len(a) : Kept(a[j]) = Kept(a[i]) })
         = Cardinality({ j \in 1..Len(b) : Kept(b[j]) = Kept(a[i]) })

\* The table load gives for the file the last export wrote.
LoadedBack == LoadFrame(Frame(read_excel(written[1]).columns, read_excel(written[1]).rows))

\* C17: loading the file that save wrote for a normalized table gives a table
\* with the same tasks: id, name, category, status and progress as they
\* were, start and end to the day.
C17_RoundTrip ==
  (lastOp.op = "export" /\ lastOp.ok) =>
    /\ LoadedBack.ok
    /\ SameTasks(to_json(LoadedBack.df.rows), store)

\* C18: with two browsers, a cell edit, an upload, a reload or a legend
\* click in one leaves the store, the table rows and the hidden set of the
\* other as they were.
C18_SessionsApart ==
  [][ (peer # << >> /\ lastOp'.op \in {"edit", "upload", "reload", "toggle"})
      => /\ peer' # << >>
         /\ peer'[1].store = peer[1].store
         /\ peer'[1].tableRows = peer[1].tableRows
         /\ peer'[1].hidden = peer[1].hidden ]_vars

\* An edit in one browser while the other has a group hidden and a table
\* that differs.
C18_Witness ==
  /\ peer # << >>
  /\ lastOp.op = "edit"
  /\ lastOp.ok
  /\ peer[1].hidden # {}
  /\ hidden = {}
  /\ peer[1].store # store
  /\ peer[1].tableRows # tableRows

\* C19: a figure that charts at least one task has its x-axis range set
\* to [least start of the charted tasks, greatest end of them plus one day].
C19_XRangeForced ==
  figure.chart # << >> => figure.xaxis_range = forced_xaxis_range(figure.chart)

\* The traces a click on the legend item of trace i restyles: those of its
\* legend group.
GroupIdxs(fig, i) ==
  { j \in 1..Len(fig.data) : fig.data[j].legendgroup = fig.data[i].legendgroup }

\* The hidden set after the click (i, v), the answer of update_gantt to it,
\* and then the click (j, w) on the figure of that answer.
AfterTwo(i, v, j, w) ==
  LET h1 == update_hidden_groups(v, GroupIdxs(figure, i), figure, hidden)
      f1 == update_gantt(store, h1, figure).figure
  IN update_hidden_groups(w, GroupIdxs(f1, j), f1, h1)

\* The connectors of a figure that are not visible.
HiddenConnectors(fig) ==
  { t \in 1..Len(fig.data) :
      fig.data[t].kind \in {"dep_line", "dep_arrow"} /\ NotVisible(fig.data[t]) }

\* C20: the visibility of the connectors does not depend on the order of the
\* legend clicks: in the scene shown after any clicks a connector is not
\* visible exactly when the group of its parent or of its child is in the
\* hidden set, and two further clicks on two different groups, in either
\* order, end with the same hidden set and the same connectors not visible.
C20_ToggleOrderFree ==
  gantt = "ok" =>
    /\ HiddenConnectors(figure) =
         { t \in 1..Len(figure.data) :
             /\ figure.data[t].kind \in {"dep_line", "dep_arrow"}
             /\ \E k \in 1..2 : GroupOf(figure.data[t].ids[k]) \in hidden }
    /\ \A i, j \in 1..Len(figure.data) :
         \A v, w \in VisInputs :
           ( /\ figure.data[i].showlegend
             /\ figure.data[j].showlegend
             /\ figure.data[i].legendgroup # figure.data[j].legendgroup )
           => /\ AfterTwo(i, v, j, w) = AfterTwo(j, w, i, v)
              /\ HiddenConnectors(update_gantt(store, AfterTwo(i, v, j, w), figure).figure)
                  = HiddenConnectors(update_gantt(store, AfterTwo(j, w, i, v), figure).figure)

\* Three clicks, the last one showing the group of a parent again while the
\* group of its child stays hidden: the connector between them is still not
\* visible.
C20_Witness ==
  /\ lastOp.op = "toggle"
  /\ gantt = "ok"
  /\ lastOp.col = "true"
  /\ nClicks = 3
  /\ \E t \in HiddenConnectors(figure) :
       /\ figure.data[t].kind = "dep_line"
       /\ GroupOf(figure.data[t].ids[1]) = figure.data[lastOp.idx].legendgroup
       /\ GroupOf(figure.data[t].ids[1]) \notin hidden
       /\ GroupOf(figure.data[t].ids[2]) \in hidden

\* The traces of a figure with the visibility marks taken off.
Unmarked(fig) == [ t \in 1..Len(fig.data) |-> [fig.data[t] EXCEPT !.visible = "true"] ]

\* The legend groups of the traces of a figure.
LegendGroups(fig) == { fig.data[t].legendgroup : t \in 1..Len(fig.data) } \ { << >> }

\* The figure update_gantt returns for the store and the hidden set h.
Scene(h) == update_gantt(store, h, figure).figure

\* C21: hiding removes no artifact: for the table of the store, the traces
\* update_gantt builds (bars, overlays, lock markers, connectors, legend
\* entries) are the same, in the same order, for every hidden set; only
\* their visibility marks differ.
C21_HidingKeepsArtifacts ==
  gantt = "ok" =>
    /\ Unmarked(figure) = build(normalize(read_json(store)).rows).data
    /\ \A h \in SUBSET LegendGroups(figure) :
         /\ Unmarked(Scene(h)) = Unmarked(Scene({}))
         /\ Scene(h).chart = Scene({}).chart
         /\ Scene(h).deps = Scene({}).deps

\* A scene with a hidden group: a bar, a lock marker and a connector are in
\* the figure and not visible.
C21_Witness ==
  /\ lastOp.op = "toggle"
  /\ gantt = "ok"
  /\ hidden # {}
  /\ \A k \in {"bar", "lock", "dep_line"} :
       \E t \in 1..Len(figure.data) :
         figure.data[t].kind = k /\ NotVisible(figure.data[t])

\* The legend group a task is to have: by its status for Review and Done,
\* by its category otherwise.
GroupByStatus(r) ==
  IF r[COL_STATUS].s = STATUS_REVIEW THEN Text_status \o STATUS_REVIEW
  ELSE IF r[COL_STATUS].s = STATUS_DONE THEN Text_status \o STATUS_DONE
  ELSE Text_cat \o r[COL_CATEGORY].s

\* The traces of the given kind that draw the task with the given id.
TracesOf(fig, kind, id) ==
  { t \in 1..Len(fig.data) : fig.data[t].kind = kind /\ id \in Range(fig.data[t].ids) }

\* C22: every charted task has the legend group status:Review or status:Done
\* when its status is Review or Done and cat:<category> otherwise; it has
\* one base bar and one progress overlay, and these and its lock marker
\* carry that group.
C22_LegendGroups ==
  gantt = "ok" =>
    \A i \in 1..Len(figure.chart) :
      LET r == figure.chart[i]
          id == r[COL_ID].s
      IN /\ Cardinality(TracesOf(figure, "bar", id)) = 1
         /\ Cardinality(TracesOf(figure, "overlay", id)) = 1
         /\ \A k \in {"bar", "overlay", "lock"} :
              \A t \in TracesOf(figure, k, id) :
                figure.data[t].legendgroup = GroupByStatus(r)

\* A chart with a blocked task in Review and a task that is neither in
\* Review nor Done.
C22_Witness ==
  /\ gantt = "ok"
  /\ \E i, j \in 1..Len(figure.chart) :
       /\ figure.chart[i][COL_STATUS].s = STATUS_REVIEW
       /\ TracesOf(figure, "lock", figure.chart[i][COL_ID].s) # {}
       /\ figure.chart[j][COL_STATUS].s \notin {STATUS_REVIEW, STATUS_DONE}
       /\ figure.chart[j][COL_CATEGORY].s # << >>

\* The lock markers of a figure.
Locks(fig) == { t \in 1..Len(fig.data) : fig.data[t].kind = "lock" }

\* C23: the scene has exactly one lock marker for every charted task whose
\* blocked flag is set, at the start and in the row of that task and with
\* the task's own legend group as group and as hiding dependency, and no
\* lock marker for a task whose flag is not set.
C23_LockMarkers ==
  gantt = "ok" =>
    /\ \A i \in 1..Len(figure.chart) :
         LET r == figure.chart[i]
             mine == TracesOf(figure, "lock", r[COL_ID].s)
         IN IF blocked(figure.chart, r)
            THEN /\ Cardinality(mine) = 1
                 /\ \A t \in mine :
                      /\ figure.data[t].x = << r[COL_START] >>
                      /\ figure.data[t].y = << r[COL_NAME] >>
                      /\ figure.data[t].legendgroup = GroupByStatus(r)
                      /\ figure.data[t].hide_if_any_hidden = << GroupByStatus(r) >>
            ELSE mine = {}
    /\ Cardinality(Locks(figure)) =
         Cardinality({ i \in 1..Len(figure.chart) : blocked(figure.chart, figure.chart[i]) })

\* A chart with a blocked task, whose lock marker stands at its start, and
\* a task that starts at another time, is not blocked and has no marker.
C23_Witness ==
  /\ gantt = "ok"
  /\ \E i, j \in 1..Len(figure.chart) :
       /\ blocked(figure.chart, figure.chart[i])
       /\ \E t \in Locks(figure) : figure.data[t].x = << figure.chart[i][COL_START] >>
       /\ ~blocked(figure.chart, figure.chart[j])
       /\ figure.chart[j][COL_START] # figure.chart[i][COL_START]
       /\ TracesOf(figure, "lock", figure.chart[j][COL_ID].s) = {}

\* The calendar days from the day of start_date to the day of end_date.
DaysOfScan ==
  { d \in 0..MaxScanDay :
      scan.start_date \div TicksPerDay <= d /\ d <= scan.end_date \div TicksPerDay }

\* The bands of a finished scan: one band of one day for every Saturday and
\* Sunday of the range, none for another day, the tint by the day.
BandsExact ==
  /\ \A d \in DaysOfScan :
       LET mine == { b \in 1..Len(scan.bands) : scan.bands[b].x0 = d * TicksPerDay }
       IN IF (d + 4) % 7 \in {5, 6}
          THEN /\ Cardinality(mine) = 1
               /\ \A b \in mine :
                    /\ scan.bands[b].x1 = (d + 1) * TicksPerDay
                    /\ scan.bands[b].color =
                         (IF (d + 4) % 7 = 5 THEN TINT_SATURDAY ELSE TINT_SUNDAY)
          ELSE mine = {}
  /\ \A b \in 1..Len(scan.bands) : scan.bands[b].x0 \in { d * TicksPerDay : d \in DaysOfScan }
  /\ TINT_SATURDAY # TINT_SUNDAY
  /\ scan.end_date < scan.start_date => scan.bands = << >>
  /\ scan.bands = add_weekend_vrects(scan.start_date, scan.end_date)

\* C24: for every date range add_weekend_vrects emits exactly one band of
\* one day for each Saturday and each Sunday of the range and no other
\* band, the Saturdays in one tint and the Sundays in another; it emits
\* nothing when the end is before the start; and the scan of the days ends.
C24_WeekendBands ==
  /\ [](scan.pc = "done" => BandsExact)
  /\ [](scan.pc = "loop" => <>(scan.pc = "done"))

\* The NOW lines and the NOW labels of a figure.
NowLines(fig) == { i \in 1..Len(fig.shapes) : fig.shapes[i].type = "line" }

NowLabels(fig) == { i \in 1..Len(fig.annotations) : fig.annotations[i].text = "NOW" }

\* C25: a scene just built holds the NOW marker, one vertical line and one
\* label at the current instant, exactly when a task is charted and the
\* current instant is neither before the least start nor after the greatest
\* end of the charted tasks; otherwise it holds neither line nor label.
C25_NowMarker ==
  (lastOp.op \in {"init", "reload", "edit"} /\ lastOp.ok /\ gantt = "ok") =>
    IF /\ figure.chart # << >>
       /\ \E i \in 1..Len(figure.chart) : figure.chart[i][COL_START].n <= now
       /\ \E i \in 1..Len(figure.chart) : now <= figure.chart[i][COL_END].n
    THEN /\ Cardinality(NowLines(figure)) = 1
         /\ Cardinality(NowLabels(figure)) = 1
         /\ \A i \in NowLines(figure) :
              figure.shapes[i].x0 = now /\ figure.shapes[i].x1 = now
         /\ \A i \in NowLabels(figure) : figure.annotations[i].x = now
    ELSE NowLines(figure) = {} /\ NowLabels(figure) = {}

\* A redraw at the instant of the greatest end of the chart, after time has
\* passed: the marker is in the scene.
C25_Witness ==
  /\ lastOp.op \in {"reload", "edit"}
  /\ lastOp.ok
  /\ gantt = "ok"
  /\ figure.chart # << >>
  /\ now = MaxEnd(figure.chart)
  /\ now > MinStart(figure.chart)
  /\ NowLines(figure) # {}

\* The tasks of a table whose parentId is their own id.
SelfParents(rows) ==
  { i \in 1..Len(rows) : rows[i][COL_PARENT].s # << >> /\ rows[i][COL_PARENT] = rows[i][COL_ID] }

\* C26 as stated: a task whose parentId is its own id has the self edge
\* (id, id) in the result of iter_dependencies and is blocked iff its own
\* progress is below 100.
C26_SelfParentOwnProgress ==
  \A rows \in ResolverTables :
    \A i \in SelfParents(rows) :
      /\ << rows[i][COL_ID].s, rows[i][COL_ID].s >> \in Range(iter_dependencies(rows, 1))
      /\ IsBlocked(rows, i) <=> rows[i][COL_PROGRESS].n < 100

\* C26: a task whose parentId is its own id has the self edge (id, id) in
\* the result of iter_dependencies and is blocked iff the progress of the
\* last task with that id is below 100: its own progress when no other task
\* has its id.
C26_SelfParent ==
  \A rows \in ResolverTables :
    \A i \in SelfParents(rows) :
      /\ << rows[i][COL_ID].s, rows[i][COL_ID].s >> \in Range(iter_dependencies(rows, 1))
      /\ IsBlocked(rows, i) <=> rows[Resolved(rows, rows[i][COL_ID].s)][COL_PROGRESS].n < 100
      /\ (\A j \in 1..Len(rows) : rows[j][COL_ID] = rows[i][COL_ID] => j = i)
           => (IsBlocked(rows, i) <=> rows[i][COL_PROGRESS].n < 100)

\* A table after an edit in which a task with an id of its own names itself
\* as parent, has progress 100 and is not blocked.
C26_Witness ==
  /\ lastOp.op = "edit"
  /\ \E rows \in ResolverTables :
       \E i \in SelfParents(rows) :
         /\ \A j \in 1..Len(rows) : rows[j][COL_ID] = rows[i][COL_ID] => j = i
         /\ rows[i][COL_PROGRESS].n = 100
         /\ ~IsBlocked(rows, i)

\* C27: on a canonical table in which two tasks share an id, add_blocked
\* judges a child of that id by the progress of the last task with the id,
\* iter_dependencies returns the edge of every task whose parentId is the id
\* of a task, and build returns a scene.
C27_DuplicateIds ==
  (store # << >> /\ ~UniqueIds(StoreFrame.rows)) =>
    /\ \A rows \in ResolverTables :
         /\ \A i \in 1..Len(rows) :
              (\E j \in 1..Len(rows) : rows[j][COL_ID] = rows[i][COL_PARENT])
              => (IsBlocked(rows, i) <=>
                    rows[Resolved(rows, rows[i][COL_PARENT].s)][COL_PROGRESS].n < 100)
         /\ \A i \in 1..Len(rows) :
              (\E j \in 1..Len(rows) : rows[j][COL_ID] = rows[i][COL_PARENT])
              => << rows[i][COL_PARENT].s, rows[i][COL_ID].s >>
                   \in Range(iter_dependencies(rows, 1))
    /\ ~BuildRaises(StoreFrame.rows)
    /\ gantt # "raised"

\* The edges of a table of which the task at position i is the child.
EdgesTo(rows, i) ==
  { e \in 1..Len(iter_dependencies(rows, 1)) :
      iter_dependencies(rows, 1)[e][2] = rows[i][COL_ID].s }

\* C28: add_blocked and iter_dependencies agree on every table: a task with
\* a parentId that is the child of no edge is blocked, and a task that is
\* not blocked has no parentId or is the child of an edge from its parentId
\* whose parent task has progress 100.
C28_BlockedAgreesWithEdges ==
  \A rows \in ResolverTables :
    \A i \in 1..Len(rows) :
      /\ (rows[i][COL_PARENT].s # << >> /\ EdgesTo(rows, i) = {}) => IsBlocked(rows, i)
      /\ ~IsBlocked(rows, i) =>
           \/ rows[i][COL_PARENT].s = << >>
           \/ \E e \in EdgesTo(rows, i) :
                /\ iter_dependencies(rows, 1)[e][1] = rows[i][COL_PARENT].s
                /\ \E j \in 1..Len(rows) :
                     /\ rows[j][COL_ID].s = rows[i][COL_PARENT].s
                     /\ rows[j][COL_PROGRESS].n = 100

\* A table with a task that names a parent no task has, is the child of no
\* edge and is blocked, and a task that is the child of an edge from a parent
\* at progress 100 and is not blocked.
C28_Witness ==
  \E rows \in ResolverTables :
    \E i, j \in 1..Len(rows) :
      /\ rows[i][COL_PARENT].s # << >>
      /\ EdgesTo(rows, i) = {}
      /\ IsBlocked(rows, i)
      /\ EdgesTo(rows, j) # {}
      /\ ~IsBlocked(rows, j)

\* C29: a cell edit of one task leaves every field of every other task of
\* the store as it was, the start and end instants included; the rows may
\* come in another order.
C29_EditLeavesOthers ==
  [][ (lastOp'.op = "edit" /\ lastOp'.ok /\ Len(store) = Len(tableRows))
      => \A k \in 1..Len(store) :
           k # lastOp'.idx => \E j \in 1..Len(store') : store'[j] = store[k] ]_vars

\* C30: a legend click changes neither the store nor the table rows nor
\* the uploaded file name, and adds to or takes from the hidden set no group
\* but the one of the clicked legend item; a cell edit, a reload, an upload
\* and an export leave the hidden set as it was.
C30_OwnEventsOnly ==
  [][ /\ lastOp'.op = "toggle" =>
           /\ store' = store
           /\ tableRows' = tableRows
           /\ uploadedFilename' = uploadedFilename
           /\ (hidden' \ hidden) \cup (hidden \ hidden')
                \subseteq { figure.data[lastOp'.idx].legendgroup }
      /\ lastOp'.op \in {"edit", "reload", "upload", "export"} => hidden' = hidden ]_vars

\* After a cell edit a group is still hidden although no trace of the new
\* scene belongs to it.
C30_Witness ==
  /\ lastOp.op = "edit"
  /\ lastOp.ok
  /\ gantt = "ok"
  /\ \E g \in hidden :
       \A t \in 1..Len(figure.data) : figure.data[t].legendgroup # g

====
